---- MODULE Spec2Model ----
(***************************************************************************)
(* A model of tts-daemon's cache and fetch-coordination layer:             *)
(*   internal/tts/cache.go    Cache (the audio_cache table, key            *)
(*                            derivation, compression, LRU eviction)       *)
(*   internal/tts/service.go  Service (GetAudio and its in-flight map,     *)
(*                            GetCachedAudio, DeleteCached)                *)
(*                                                                         *)
(* Texts and language codes are sequences of one-character strings.  A     *)
(* byte string is kept run-length encoded: a sequence of runs <<b, n>>,    *)
(* each standing for n copies of the byte b.                               *)
(***************************************************************************)
EXTENDS Integers, Sequences, FiniteSets, Bags, TLC

----------------------------------------------------------------------------
(* Bounds of the model *)

\* callers (goroutines serving one request each)
NumCallers == 2
\* the number of entries the eviction scenario inserts, one per second
NumInserts == 20
\* the number of evictIfNeeded goroutines that may be unfinished when the
\* scenario makes its next insert
MaxBacklog == 4
\* the number of Cache.Put calls of the cache scenario, one per second
MaxPuts == 2
\* the number of updateLastAccessed goroutines that may be unfinished when the
\* cache scenario makes its next Get
MaxSpawned == 1
\* the length of the texts whose keys are derived
MaxLen == 3
\* the number of requests of a BulkFetchTTS batch
MaxBatch == 2
\* the seconds the clock advances while the service runs
MaxTime == 1

----------------------------------------------------------------------------
(* Characters and strings (strings, unicode) *)

NULL == "NULL"

\* errors are chains of messages, outermost first (fmt.Errorf("...: %w", err)); nil is empty
NoErr == <<>>
Wrap(msg, err) == <<msg>> \o err

Upper == {"H", "I", "W"}
Lower == {"h", "i", "w", "e", "l", "o", "r", "d"}
Space == {" ", "\t"}
Punct == {"!", ",", ":", "-"}

\* strings.ToLower, one rune
ToLowerRune(c) ==
    CASE c = "H" -> "h"
      [] c = "I" -> "i"
      [] c = "W" -> "w"
      [] OTHER -> c

IsSpace(c) == c \in Space
IsPunct(c) == c \in Punct

\* (mutant) the text keeps its case
ToLowerNone(s) == s

ToLower(s) == [i \in 1..Len(s) |-> ToLowerRune(s[i])]

RECURSIVE TrimLeftSpace(_)
TrimLeftSpace(s) ==
    IF s # <<>> /\ IsSpace(Head(s)) THEN TrimLeftSpace(Tail(s)) ELSE s

RECURSIVE TrimRightSpace(_)
TrimRightSpace(s) ==
    IF s # <<>> /\ IsSpace(s[Len(s)])
    THEN TrimRightSpace(SubSeq(s, 1, Len(s) - 1))
    ELSE s

\* strings.TrimSpace
TrimSpace(s) == TrimRightSpace(TrimLeftSpace(s))

\* strings.Fields: the maximal runs of non-space characters, in order
RECURSIVE FieldsFrom(_, _, _)
FieldsFrom(s, cur, acc) ==
    IF s = <<>>
    THEN IF cur = <<>> THEN acc ELSE Append(acc, cur)
    ELSE IF IsSpace(Head(s))
         THEN FieldsFrom(Tail(s), <<>>, IF cur = <<>> THEN acc ELSE Append(acc, cur))
         ELSE FieldsFrom(Tail(s), Append(cur, Head(s)), acc)

Fields(s) == FieldsFrom(s, <<>>, <<>>)

\* strings.Join(fs, " ")
RECURSIVE JoinSpace(_)
JoinSpace(fs) ==
    IF fs = <<>> THEN <<>>
    ELSE IF Len(fs) = 1 THEN fs[1]
    ELSE fs[1] \o <<" ">> \o JoinSpace(Tail(fs))

\* strings.TrimRightFunc(text, unicode.IsPunct || unicode.IsSpace)
RECURSIVE TrimRightPunctSpace(_)
TrimRightPunctSpace(s) ==
    IF s # <<>> /\ (IsPunct(s[Len(s)]) \/ IsSpace(s[Len(s)]))
    THEN TrimRightPunctSpace(SubSeq(s, 1, Len(s) - 1))
    ELSE s

NormalizeText(text) ==
    TrimRightPunctSpace(JoinSpace(Fields(TrimSpace(ToLower(text)))))

\* sha256 + hex, idealised as an injective function of the hashed string
Sha256Hex(s) == <<"sha256">> \o s

\* (mutant) the language code is left out of the hashed string
GenerateCacheKeyNoLang(text, languageCode) == Sha256Hex(NormalizeText(text))

GenerateCacheKey(text, languageCode) ==
    LET normalized == NormalizeText(text)
        combined == languageCode \o <<":">> \o normalized
    IN  Sha256Hex(combined)

----------------------------------------------------------------------------
(* Byte strings and the zstd codec *)

RECURSIVE ByteLen(_)
\* len(b) of a run-length encoded byte string
ByteLen(b) == IF b = <<>> THEN 0 ELSE b[1][2] + ByteLen(Tail(b))

\* nil / empty []byte
NoBytes == <<>>

\* the first byte of a zstd frame (its magic number)
ZstdMagic == <<40, 1>>

\* encoder.EncodeAll(data, nil): a frame that DecodeAll turns back into data;
\* its length differs from the length of data
EncodeAll(data) == <<ZstdMagic>> \o data

IsZstdFrame(b) == b # <<>> /\ b[1] = ZstdMagic

\* decoder.DecodeAll(data, nil): [err, data]
DecodeAll(b) ==
    IF IsZstdFrame(b) THEN [err |-> NoErr, data |-> Tail(b)]
    ELSE [err |-> <<"invalid input">>, data |-> NoBytes]

----------------------------------------------------------------------------
(* The audio_cache table and the Cache (cache.go) *)

VARIABLES
    table,               \* the rows of audio_cache
    schema,              \* the columns of audio_cache, and what the last initSchema returned
    compressionEnabled,  \* Cache.compressionEnabled; encoder and decoder are non-nil iff it is set
    maxSizeBytes,        \* Cache.maxSizeBytes, 0 = unlimited
    now,                 \* the clock read by getCurrentTimestamp
    touches,             \* spawned updateLastAccessed goroutines not yet run: <<cacheKey, timestamp>>
    recompressions,      \* spawned recompressEntry goroutines not yet run: <<cacheKey, uncompressedData>>
    evictPending,        \* spawned evictIfNeeded goroutines that have not read the total yet
    evictRunning,        \* evictIfNeeded goroutines between the SUM query and the DELETE: a bag of totals
    inFlight,            \* Service.inFlight: cache key -> flight, of the registered keys
    inFlightMu,          \* Service.inFlightMu: the caller that holds the mutex, 0 when it is free
    flights,             \* the inFlightFetch objects allocated so far
    callers,             \* the callers' program counters, arguments, locals and results
    synthCalls,          \* SynthesizeToMP3 invocations so far, per cache key
    bulk,                \* the BulkFetchTTS handler: its position, batch, workers and response
    cancelled            \* the callers whose request context has been cancelled

cacheVars == <<table, schema, compressionEnabled, maxSizeBytes, now, touches, recompressions,
               evictPending, evictRunning>>
serviceVars == <<inFlight, flights, callers, synthCalls>>
lockVars == <<inFlightMu>>
serverVars == <<bulk, cancelled>>
vars == <<table, schema, compressionEnabled, maxSizeBytes, now, touches, recompressions,
          evictPending, evictRunning, inFlight, inFlightMu, flights, callers, synthCalls,
          bulk, cancelled>>

\* getCurrentTimestamp
getCurrentTimestamp == now

\* a NULL in an INTEGER column; timestamps are not negative
NullTime == 0 - 1

\* the columns CREATE TABLE IF NOT EXISTS creates
CreatedColumns == {"cache_key", "text", "language_code", "audio_data", "audio_size",
                   "created_at"}

\* the columns after initSchema
AllColumns == CreatedColumns \cup {"compression", "last_accessed"}

\* the schema every Cache works on
CurrentSchema == [columns |-> AllColumns, err |-> NoErr]

\* SELECT COUNT(*) FROM pragma_table_info('audio_cache') WHERE name = ?
ColumnExists(columns, name) == name \in columns

\* ALTER TABLE audio_cache ADD COLUMN: the existing rows hold NULL in it
AddColumn(rows, name, null) ==
    {[c \in DOMAIN r \cup {name} |-> IF c \in DOMAIN r THEN r[c] ELSE null] : r \in rows}

\* (mutant) the new last_accessed column is left NULL
BackfillSkipped(rows) == rows

\* UPDATE audio_cache SET last_accessed = created_at WHERE last_accessed IS NULL
Backfill(rows) ==
    {IF r.last_accessed = NullTime THEN [r EXCEPT !.last_accessed = r.created_at] ELSE r :
        r \in rows}

\* the statements of initSchema, in order
SchemaStatements ==
    <<"failed to create schema",
      "failed to check for compression column",
      "failed to add compression column",
      "failed to create compression index",
      "failed to check for last_accessed column",
      "failed to add last_accessed column",
      "failed to initialize last_accessed column",
      "failed to create last_accessed index">>

\* Cache.initSchema on a file with the given columns and rows: [columns, rows,
\* err].  failAt is the statement that fails, 0 if none does; a statement that
\* is not executed cannot fail.  Every statement is atomic.
initSchema(columns, rows, failAt) ==
    LET s1 == [columns |-> IF columns = {} THEN CreatedColumns ELSE columns, rows |-> rows,
               err |-> NoErr]
        compressionExists == ColumnExists(s1.columns, "compression")
        s3 == IF compressionExists THEN s1
              ELSE [s1 EXCEPT !.columns = @ \cup {"compression"},
                              !.rows = AddColumn(@, "compression", NULL)]
        lastAccessedExists == ColumnExists(s3.columns, "last_accessed")
        s6 == IF lastAccessedExists THEN s3
              ELSE [s3 EXCEPT !.columns = @ \cup {"last_accessed"},
                              !.rows = AddColumn(@, "last_accessed", NullTime)]
        s7 == IF lastAccessedExists THEN s6 ELSE [s6 EXCEPT !.rows = Backfill(@)]
        before(i, st) == [st EXCEPT !.err = <<SchemaStatements[i]>>]
        start == [columns |-> columns, rows |-> rows, err |-> NoErr]
    IN  IF failAt = 1 THEN before(1, start)
        ELSE IF failAt = 2 THEN before(2, s1)
        ELSE IF failAt = 3 /\ ~compressionExists THEN before(3, s1)
        ELSE IF failAt = 4 THEN before(4, s3)
        ELSE IF failAt = 5 THEN before(5, s3)
        ELSE IF failAt = 6 /\ ~lastAccessedExists THEN before(6, s3)
        ELSE IF failAt = 7 /\ ~lastAccessedExists THEN before(7, s6)
        ELSE IF failAt = 8 THEN before(8, s7)
        ELSE s7

\* SELECT ... FROM audio_cache WHERE cache_key = ?
RowsWithKey(tbl, cacheKey) == {r \in tbl : r.cache_key = cacheKey}

\* a nil *CachedAudio
NilAudio == [cache_key |-> <<>>]

\* (mutant) a row that cannot be decoded is returned as it is stored
GetRawFallback(tbl, text, languageCode, dbOk) ==
    LET cacheKey == GenerateCacheKey(text, languageCode)
        rows == RowsWithKey(tbl, cacheKey)
        none == [err |-> NoErr, found |-> FALSE, audio |-> NilAudio,
                 touch |-> FALSE, recompress |-> FALSE]
    IN  IF ~dbOk THEN [none EXCEPT !.err = <<"failed to query cache">>]
        ELSE IF rows = {} THEN none
        ELSE LET audio == CHOOSE r \in rows : TRUE
                 dec == DecodeAll(audio.audio_data)
             IN  IF audio.compression = "zstd" /\ compressionEnabled /\ dec.err = NoErr
                 THEN [none EXCEPT !.found = TRUE, !.touch = TRUE,
                                   !.audio = [audio EXCEPT !.audio_data = dec.data]]
                 ELSE [none EXCEPT !.found = TRUE, !.audio = audio, !.touch = TRUE,
                                   !.recompress = compressionEnabled /\ audio.compression = NULL]

\* (mutant) without a decoder a compressed row counts as not found
GetNotFoundWithoutDecoder(tbl, text, languageCode, dbOk) ==
    LET cacheKey == GenerateCacheKey(text, languageCode)
        rows == RowsWithKey(tbl, cacheKey)
        none == [err |-> NoErr, found |-> FALSE, audio |-> NilAudio,
                 touch |-> FALSE, recompress |-> FALSE]
    IN  IF ~dbOk THEN [none EXCEPT !.err = <<"failed to query cache">>]
        ELSE IF rows = {} THEN none
        ELSE LET audio == CHOOSE r \in rows : TRUE
                 dec == DecodeAll(audio.audio_data)
             IN  IF audio.compression = "zstd"
                 THEN IF ~compressionEnabled THEN [none EXCEPT !.touch = TRUE]
                      ELSE IF dec.err # NoErr
                      THEN [none EXCEPT !.err = Wrap("failed to decompress audio data", dec.err),
                                        !.touch = TRUE]
                      ELSE [none EXCEPT !.found = TRUE, !.touch = TRUE,
                                        !.audio = [audio EXCEPT !.audio_data = dec.data]]
                 ELSE [none EXCEPT !.found = TRUE, !.audio = audio, !.touch = TRUE,
                                   !.recompress = compressionEnabled]

\* Cache.Get: [err, found, audio, touch, recompress]; touch and recompress tell
\* which goroutines the call spawned. dbOk = FALSE is a failing query.
Get(tbl, text, languageCode, dbOk) ==
    LET cacheKey == GenerateCacheKey(text, languageCode)
        rows == RowsWithKey(tbl, cacheKey)
        none == [err |-> NoErr, found |-> FALSE, audio |-> NilAudio,
                 touch |-> FALSE, recompress |-> FALSE]
    IN  IF ~dbOk THEN [none EXCEPT !.err = <<"failed to query cache">>]
        ELSE IF rows = {} THEN none
        ELSE LET audio == CHOOSE r \in rows : TRUE
             IN  IF audio.compression = "zstd"
                 THEN IF ~compressionEnabled
                      THEN [none EXCEPT !.err = <<"zstd decoder not initialized">>, !.touch = TRUE]
                      ELSE LET dec == DecodeAll(audio.audio_data)
                           IN  IF dec.err # NoErr
                               THEN [none EXCEPT !.err = Wrap("failed to decompress audio data", dec.err),
                                                 !.touch = TRUE]
                               ELSE [none EXCEPT !.found = TRUE,
                                                 !.audio = [audio EXCEPT !.audio_data = dec.data],
                                                 !.touch = TRUE]
                 ELSE [none EXCEPT !.found = TRUE, !.audio = audio, !.touch = TRUE,
                                   !.recompress = compressionEnabled]

\* the row a Cache opened with the given compression setting writes at time ts
RowWritten(compress, ts, text, languageCode, audioData) ==
    LET dataToStore == IF compress THEN EncodeAll(audioData) ELSE audioData
    IN  [cache_key     |-> GenerateCacheKey(text, languageCode),
         text          |-> text,
         language_code |-> languageCode,
         audio_data    |-> dataToStore,
         audio_size    |-> ByteLen(dataToStore),
         compression   |-> IF compress THEN "zstd" ELSE NULL,
         created_at    |-> ts,
         last_accessed |-> ts]

\* the row Cache.Put writes
PutRow(text, languageCode, audioData) ==
    RowWritten(compressionEnabled, getCurrentTimestamp, text, languageCode, audioData)

\* (mutant) a plain INSERT into a table without the primary key
InsertKeepingOld(tbl, row) == tbl \cup {row}

\* INSERT OR REPLACE INTO audio_cache
InsertOrReplace(tbl, row) == {r \in tbl : r.cache_key # row.cache_key} \cup {row}

\* (mutant) a Put that reports success without having written the row
PutDropped(tbl, text, languageCode, audioData, dbOk) ==
    IF ~dbOk
    THEN [cacheKey |-> <<>>, err |-> <<"failed to insert into cache">>,
          table |-> tbl, evict |-> FALSE]
    ELSE [cacheKey |-> GenerateCacheKey(text, languageCode), err |-> NoErr,
          table |-> tbl, evict |-> maxSizeBytes > 0]

\* Cache.Put: [cacheKey, err, table, evict]; evict tells whether the call
\* spawned evictIfNeeded. dbOk = FALSE is a failing INSERT.
Put(tbl, text, languageCode, audioData, dbOk) ==
    IF ~dbOk
    THEN [cacheKey |-> <<>>, err |-> <<"failed to insert into cache">>,
          table |-> tbl, evict |-> FALSE]
    ELSE [cacheKey |-> GenerateCacheKey(text, languageCode), err |-> NoErr,
          table |-> InsertOrReplace(tbl, PutRow(text, languageCode, audioData)),
          evict |-> maxSizeBytes > 0]

\* (mutant) a touch of a key that is not stored inserts a row for it
updateLastAccessedUpsert(tbl, cacheKey, timestamp) ==
    IF RowsWithKey(tbl, cacheKey) = {}
    THEN tbl \cup {[cache_key |-> cacheKey, text |-> <<>>, language_code |-> <<>>,
                    audio_data |-> NoBytes, audio_size |-> 0, compression |-> NULL,
                    created_at |-> timestamp, last_accessed |-> timestamp]}
    ELSE {IF r.cache_key = cacheKey THEN [r EXCEPT !.last_accessed = timestamp] ELSE r :
            r \in tbl}

\* UPDATE audio_cache SET last_accessed = ? WHERE cache_key = ?
updateLastAccessed(tbl, cacheKey, timestamp) ==
    {IF r.cache_key = cacheKey THEN [r EXCEPT !.last_accessed = timestamp] ELSE r : r \in tbl}

\* (mutant) the UPDATE leaves audio_size as it was
recompressEntryStaleSize(tbl, cacheKey, uncompressedData) ==
    LET compressed == EncodeAll(uncompressedData)
    IN  IF ~compressionEnabled THEN tbl ELSE
        {IF r.cache_key = cacheKey /\ r.compression = NULL
         THEN [r EXCEPT !.audio_data = compressed, !.compression = "zstd"]
         ELSE r : r \in tbl}

\* (mutant) the UPDATE has no condition on the compression column
recompressEntryUnguarded(tbl, cacheKey, uncompressedData) ==
    LET compressed == EncodeAll(uncompressedData)
    IN  IF ~compressionEnabled THEN tbl ELSE
        {IF r.cache_key = cacheKey
         THEN [r EXCEPT !.audio_data = compressed,
                        !.audio_size = ByteLen(compressed),
                        !.compression = "zstd"]
         ELSE r : r \in tbl}

\* (mutant) the UPDATE stores the frame but leaves the compression column NULL
recompressEntryUnmarked(tbl, cacheKey, uncompressedData) ==
    LET compressed == EncodeAll(uncompressedData)
    IN  IF ~compressionEnabled THEN tbl ELSE
        {IF r.cache_key = cacheKey /\ r.compression = NULL
         THEN [r EXCEPT !.audio_data = compressed,
                        !.audio_size = ByteLen(compressed)]
         ELSE r : r \in tbl}

\* UPDATE audio_cache SET audio_data, audio_size, compression
\* WHERE cache_key = ? AND compression IS NULL
recompressEntry(tbl, cacheKey, uncompressedData) ==
    LET compressed == EncodeAll(uncompressedData)
    IN  IF ~compressionEnabled THEN tbl ELSE
        {IF r.cache_key = cacheKey /\ r.compression = NULL
         THEN [r EXCEPT !.audio_data = compressed,
                        !.audio_size = ByteLen(compressed),
                        !.compression = "zstd"]
         ELSE r : r \in tbl}

\* (mutant) the DELETE matches no row
DeleteRowsNone(tbl, cacheKey) == tbl

\* DELETE FROM audio_cache WHERE cache_key = ?
DeleteRows(tbl, cacheKey) == {r \in tbl : r.cache_key # cacheKey}

\* Cache.Delete: [cacheKey, deleted, err, table]
Delete(tbl, text, languageCode, dbOk) ==
    LET cacheKey == GenerateCacheKey(text, languageCode)
    IN  IF ~dbOk
        THEN [cacheKey |-> cacheKey, deleted |-> FALSE,
              err |-> <<"failed to delete from cache">>, table |-> tbl]
        ELSE [cacheKey |-> cacheKey,
              deleted |-> RowsWithKey(tbl, cacheKey) # {},
              err |-> NoErr, table |-> DeleteRows(tbl, cacheKey)]

\* SELECT COALESCE(SUM(audio_size), 0) FROM audio_cache
RECURSIVE SumSizes(_)
SumSizes(rows) ==
    IF rows = {} THEN 0
    ELSE LET r == CHOOSE x \in rows : TRUE
         IN  r.audio_size + SumSizes(rows \ {r})

\* int64(float64(c.maxSizeBytes) * 0.9)
TargetSize(maxSize) == (maxSize * 9) \div 10

\* (mutant) the window is ordered by last_accessed DESC
CumulativeSizeNewestFirst(tbl, r) ==
    SumSizes({x \in tbl : x.last_accessed >= r.last_accessed})

\* SUM(audio_size) OVER (ORDER BY last_accessed ASC): the window's default frame
\* runs from the first row to the current row's last peer
CumulativeSize(tbl, r) == SumSizes({x \in tbl : x.last_accessed <= r.last_accessed})

\* (mutant) rows are deleted until sizeToEvict bytes are freed: the row that
\* crosses the amount goes too
EvictRowsUntilFreed(tbl, sizeToEvict) ==
    LET doomed == {r.cache_key : r \in {x \in tbl :
                      CumulativeSize(tbl, x) - x.audio_size < sizeToEvict}}
    IN  {r \in tbl : r.cache_key \notin doomed}

\* DELETE FROM audio_cache WHERE cache_key IN (... WHERE cumulative_size <= ?)
EvictRows(tbl, sizeToEvict) ==
    LET doomed == {r.cache_key : r \in {x \in tbl : CumulativeSize(tbl, x) <= sizeToEvict}}
    IN  {r \in tbl : r.cache_key \notin doomed}

\* (mutant) total_size is reported in whole megabytes
GetStatsInMB(tbl, dbOk) ==
    IF ~dbOk
    THEN [err |-> <<"failed to get cache stats">>, total_clips |-> 0, total_size |-> 0,
          limited |-> FALSE]
    ELSE [err |-> NoErr, total_clips |-> Cardinality(tbl),
          total_size |-> SumSizes(tbl) \div (1024 * 1024), limited |-> maxSizeBytes > 0]

\* Cache.GetStats: [err, total_clips, total_size, limited]; limited tells whether
\* max_size_mb and usage_percent are reported. dbOk = FALSE is a failing query.
GetStats(tbl, dbOk) ==
    IF ~dbOk
    THEN [err |-> <<"failed to get cache stats">>, total_clips |-> 0, total_size |-> 0,
          limited |-> FALSE]
    ELSE [err |-> NoErr, total_clips |-> Cardinality(tbl), total_size |-> SumSizes(tbl),
          limited |-> maxSizeBytes > 0]

----------------------------------------------------------------------------
(* The background goroutines of the Cache *)

\* (mutant) a touch that fails is reported to the calls that read the entry
TouchRunReported(Oks) ==
    \E t \in touches, dbOk \in Oks :
        /\ touches' = touches \ {t}
        /\ table' = IF dbOk THEN updateLastAccessed(table, t[1], t[2]) ELSE table
        /\ callers' = [p \in DOMAIN callers |->
              IF ~dbOk /\ callers[p].pc = "returned" /\ callers[p].ret.cacheKey = t[1]
              THEN [callers[p] EXCEPT !.ret.audioData = <<>>,
                                      !.ret.err = <<"failed to update last_accessed">>]
              ELSE callers[p]]
        /\ UNCHANGED <<schema, compressionEnabled, maxSizeBytes, lockVars, now, recompressions,
                       evictPending, evictRunning, inFlight, flights, synthCalls,
                       serverVars>>

\* go c.updateLastAccessed(cacheKey, now)
TouchRun(Oks) ==
    \E t \in touches, dbOk \in Oks :
        /\ touches' = touches \ {t}
        /\ table' = IF dbOk THEN updateLastAccessed(table, t[1], t[2]) ELSE table
        /\ UNCHANGED <<schema, compressionEnabled, maxSizeBytes, lockVars, now, recompressions,
                       evictPending, evictRunning, serviceVars, serverVars>>

\* go c.recompressEntry(cacheKey, audio.AudioData)
RecompressRun(Oks) ==
    \E t \in recompressions, dbOk \in Oks :
        /\ recompressions' = recompressions \ {t}
        /\ table' = IF dbOk THEN recompressEntry(table, t[1], t[2]) ELSE table
        /\ UNCHANGED <<schema, compressionEnabled, maxSizeBytes, lockVars, now, touches,
                       evictPending, evictRunning, serviceVars, serverVars>>

\* (mutant) the pass stops only when the total is below the limit
EvictReadAtLimit(Oks) ==
    \E dbOk \in Oks :
        /\ evictPending > 0
        /\ evictPending' = evictPending - 1
        /\ LET totalSize == SumSizes(table)
           IN  evictRunning' =
                   IF ~dbOk \/ totalSize < maxSizeBytes THEN evictRunning
                   ELSE evictRunning (+) SetToBag({totalSize - TargetSize(maxSizeBytes)})
        /\ UNCHANGED <<table, schema, compressionEnabled, maxSizeBytes, lockVars, now, touches,
                       recompressions, serviceVars, serverVars>>

\* evictIfNeeded, up to the DELETE: the SUM query and the comparison with the limit
EvictRead(Oks) ==
    \E dbOk \in Oks :
        /\ evictPending > 0
        /\ evictPending' = evictPending - 1
        /\ LET totalSize == SumSizes(table)
           IN  evictRunning' =
                   IF ~dbOk \/ totalSize <= maxSizeBytes THEN evictRunning
                   ELSE evictRunning (+) SetToBag({totalSize - TargetSize(maxSizeBytes)})
        /\ UNCHANGED <<table, schema, compressionEnabled, maxSizeBytes, lockVars, now, touches,
                       recompressions, serviceVars, serverVars>>

\* evictIfNeeded, the DELETE
EvictDelete(Oks) ==
    \E sizeToEvict \in BagToSet(evictRunning), dbOk \in Oks :
        /\ evictRunning' = evictRunning (-) SetToBag({sizeToEvict})
        /\ table' = IF dbOk THEN EvictRows(table, sizeToEvict) ELSE table
        /\ UNCHANGED <<schema, compressionEnabled, maxSizeBytes, lockVars, now, touches,
                       recompressions, evictPending, serviceVars, serverVars>>

\* a second passes on the clock getCurrentTimestamp reads
Tick ==
    /\ now < MaxTime
    /\ now' = now + 1
    /\ UNCHANGED <<table, schema, compressionEnabled, maxSizeBytes, lockVars, touches, recompressions,
                   evictPending, evictRunning, serviceVars, serverVars>>

\* NewCache opens the file: initSchema runs, and one of its statements may fail
OpenCache(Fails) ==
    \E failAt \in Fails :
        LET r == initSchema(schema.columns, table, failAt)
        IN  /\ schema' = [columns |-> r.columns, err |-> r.err]
            /\ table' = r.rows
            /\ UNCHANGED <<compressionEnabled, maxSizeBytes, lockVars, now, touches, recompressions,
                           evictPending, evictRunning, serviceVars, serverVars>>

\* A direct caller of Cache.Put, one call per second of the clock: the call
\* writes the row and spawns evictIfNeeded when a size limit is set
CachePut(Reqs, Payloads, Oks) ==
    \E rq \in Reqs, audioData \in Payloads, dbOk \in Oks :
        LET put == Put(table, rq.text, rq.lang, audioData, dbOk)
        IN  /\ table' = put.table
            /\ evictPending' = IF put.evict THEN evictPending + 1 ELSE evictPending
            /\ now' = now + 1
            /\ UNCHANGED <<schema, compressionEnabled, maxSizeBytes, lockVars, touches, recompressions,
                           evictRunning, serviceVars, serverVars>>

\* A direct caller of Cache.Get: the call spawns its goroutines; what it returns
\* is dropped
CacheGet(Reqs, Oks) ==
    \E rq \in Reqs, dbOk \in Oks :
        LET g == Get(table, rq.text, rq.lang, dbOk)
        IN  /\ g.touch \/ g.recompress
            /\ touches' = IF g.touch
                          THEN touches \cup {<<GenerateCacheKey(rq.text, rq.lang),
                                               getCurrentTimestamp>>}
                          ELSE touches
            /\ recompressions' =
                   IF g.recompress
                   THEN recompressions \cup {<<g.audio.cache_key, g.audio.audio_data>>}
                   ELSE recompressions
            /\ UNCHANGED <<table, schema, compressionEnabled, maxSizeBytes, lockVars, now, evictPending,
                           evictRunning, serviceVars, serverVars>>

\* A direct caller of Cache.Delete
CacheDelete(Reqs, Oks) ==
    \E rq \in Reqs, dbOk \in Oks :
        /\ table' = Delete(table, rq.text, rq.lang, dbOk).table
        /\ table' # table
        /\ UNCHANGED <<schema, compressionEnabled, maxSizeBytes, lockVars, now, touches, recompressions,
                       evictPending, evictRunning, serviceVars, serverVars>>

----------------------------------------------------------------------------
(* The Service (service.go) *)

Callers == 1..NumCallers

\* the texts and language codes of the requests
Requests == {[text |-> <<"H", "i", "!">>, lang |-> <<"e", "n">>],
             [text |-> <<"h", "i">>, lang |-> <<"f", "r">>]}

Keys == {GenerateCacheKey(r.text, r.lang) : r \in Requests}

\* the MP3 clips SynthesizeToMP3 may return
Clips == {<< <<1, 2>> >>, << <<2, 1>> >>}

NoFlight == 0
NoKey == <<>>

\* the inFlightFetch objects some caller or the map still refers to: the others
\* are garbage
Referenced(fl, inf, cs) ==
    LET used == {inf[k] : k \in DOMAIN inf} \cup {cs[p].flight : p \in DOMAIN cs}
    IN  [f \in (DOMAIN fl) \cap used |-> fl[f]]

\* the address of a newly allocated inFlightFetch
FreshFlight(fl) == CHOOSE f \in 1..(Cardinality(DOMAIN fl) + 1) : f \notin DOMAIN fl

\* a fresh inFlightFetch: done open, the other fields zero. leader is a ghost
\* field: the caller that allocated it.
NewFlight(p) == [done |-> FALSE, audioData |-> NoBytes, cacheKey |-> NoKey,
                 cached |-> FALSE, err |-> NoErr, leader |-> p]

\* what a call returns: (audioData, cacheKey, cached | found | deleted, err)
Result(audioData, cacheKey, flag, err) ==
    [audioData |-> audioData, cacheKey |-> cacheKey, flag |-> flag, err |-> err]

NoResult == Result(NoBytes, NoKey, FALSE, NoErr)

\* pc: where the caller is; op, text, lang, force: its call; key, flight,
\* audioData, err: GetAudio's locals; ret: what the call returned
IdleCaller == [pc |-> "idle", op |-> "none", text |-> <<>>, lang |-> <<>>,
               force |-> FALSE, key |-> NoKey, flight |-> NoFlight,
               audioData |-> NoBytes, err |-> NoErr, ret |-> NoResult]

\* a caller that has not started its call yet
Free(p) == callers[p].pc = "idle"

\* the caller's call op(text, lang) has returned r: its locals are gone, but for
\* err, kept as it was on return
Returned(c, op, text, lang, r) ==
    [IdleCaller EXCEPT !.pc = "returned", !.op = op, !.text = text, !.lang = lang,
                       !.err = c.err, !.ret = r]

\* (mutant) a hit is reported as freshly fetched
HitResultUncached(audio) == Result(audio.audio_data, audio.cache_key, FALSE, NoErr)

\* GetAudio, line 49, and GetCachedAudio, line 143: the result on a hit
HitResult(audio) == Result(audio.audio_data, audio.cache_key, TRUE, NoErr)

\* (mutant) a miss is reported as an error
MissResultError(text, lang) == Result(NoBytes, NoKey, FALSE, <<"not found">>)

\* GetCachedAudio, line 140: the result on a miss
MissResult(text, lang) == Result(NoBytes, GenerateCacheKey(text, lang), FALSE, NoErr)

\* GetAudio, line 45, and GetCachedAudio, line 136
LookupFailed(err) == Result(NoBytes, NoKey, FALSE, Wrap("cache lookup failed", err))

\* the goroutines a Cache.Get spawned
SpawnedBy(g, text, lang) ==
    /\ touches' = IF g.touch
                  THEN touches \cup {<<GenerateCacheKey(text, lang), getCurrentTimestamp>>}
                  ELSE touches
    /\ recompressions' = IF g.recompress
                         THEN recompressions \cup {<<g.audio.cache_key, g.audio.audio_data>>}
                         ELSE recompressions

\* GetAudio, lines 40-54: the call starts; unless forced it looks the cache up
\* and returns on a hit or on an error; else it derives the key
GetAudioBegin(p, rq, force, dbOk) ==
        /\ LET g == Get(table, rq.text, rq.lang, dbOk)
               started == [callers[p] EXCEPT !.pc = "check", !.op = "GetAudio",
                                             !.text = rq.text, !.lang = rq.lang,
                                             !.force = force,
                                             !.key = GenerateCacheKey(rq.text, rq.lang)]
           IN  IF force
               THEN /\ callers' = [callers EXCEPT ![p] = started]
                    /\ UNCHANGED <<touches, recompressions>>
               ELSE /\ SpawnedBy(g, rq.text, rq.lang)
                    /\ callers' = [callers EXCEPT ![p] =
                          IF g.err # NoErr
                          THEN Returned(@, "GetAudio", rq.text, rq.lang, LookupFailed(g.err))
                          ELSE IF g.found
                          THEN Returned(@, "GetAudio", rq.text, rq.lang, HitResult(g.audio))
                          ELSE started]
        /\ UNCHANGED <<table, schema, compressionEnabled, maxSizeBytes, lockVars, now, evictPending,
                       evictRunning, inFlight, flights, synthCalls, serverVars>>

\* a direct call of Service.GetAudio
GetAudioLookup(p, Reqs, Forces, Oks) ==
    \E rq \in Reqs, force \in Forces, dbOk \in Oks :
        /\ Free(p)
        /\ GetAudioBegin(p, rq, force, dbOk)

\* (mutant) the waiter reads the flight without waiting for done
DoneClosedUnchecked(f) == TRUE

\* <-flight.done
DoneClosed(f) == f.done

\* return flight.audioData, flight.cacheKey, flight.cached, flight.err
FlightResult(f) == Result(f.audioData, f.cacheKey, f.cached, f.err)

\* (mutant) the flight map is never consulted: every miss starts its own fetch
FlightExistsNever(inf, key) == FALSE

\* flight, exists := s.inFlight[key]
FlightExists(inf, key) == inf[key] # NoFlight

\* (mutant) the leader forgets to delete its flight from the map
RemoveFlightForgotten(inf, key) == inf

\* delete(s.inFlight, key)
RemoveFlight(inf, key) == [inf EXCEPT ![key] = NoFlight]

\* (mutant) a forced request never joins a flight: it registers its own
GetAudioCheckForcedLeads(p) ==
    LET c == callers[p]
        key == c.key
    IN  /\ c.pc = "check"
        /\ IF FlightExists(inFlight, key) /\ ~c.force
           THEN /\ callers' = [callers EXCEPT ![p].pc = "wait", ![p].force = FALSE,
                                              ![p].flight = inFlight[key]]
                /\ UNCHANGED <<inFlight, flights, synthCalls>>
           ELSE /\ flights' = (FreshFlight(flights) :> NewFlight(p)) @@ flights
                /\ inFlight' = [inFlight EXCEPT ![key] = FreshFlight(flights)]
                /\ callers' = [callers EXCEPT ![p].pc = "synth", ![p].force = FALSE,
                                              ![p].flight = FreshFlight(flights)]
                /\ synthCalls' = [synthCalls EXCEPT ![key] = @ + 1]
        /\ UNCHANGED <<cacheVars, lockVars, serverVars>>

\* GetAudio, lines 53-70: under inFlightMu, join the key's flight or register a
\* new one; the leader then calls SynthesizeToMP3 (line 73)
GetAudioCheck(p) ==
    LET c == callers[p]
        key == c.key
    IN  /\ c.pc = "check"
        /\ IF FlightExists(inFlight, key)
           THEN /\ callers' = [callers EXCEPT ![p].pc = "wait", ![p].force = FALSE,
                                              ![p].flight = inFlight[key]]
                /\ UNCHANGED <<inFlight, flights, synthCalls, serverVars>>
           ELSE /\ flights' = (FreshFlight(flights) :> NewFlight(p)) @@ flights
                /\ inFlight' = [inFlight EXCEPT ![key] = FreshFlight(flights)]
                /\ callers' = [callers EXCEPT ![p].pc = "synth", ![p].force = FALSE,
                                              ![p].flight = FreshFlight(flights)]
                /\ synthCalls' = [synthCalls EXCEPT ![key] = @ + 1]
        /\ UNCHANGED <<cacheVars, lockVars, serverVars>>

\* GetAudio, lines 61-62: the waiter is released and returns the flight's outcome
GetAudioWait(p) ==
    LET c == callers[p]
    IN  /\ c.pc = "wait"
        /\ DoneClosed(flights[c.flight])
        /\ callers' = [callers EXCEPT ![p] =
              Returned(@, c.op, c.text, c.lang, FlightResult(flights[c.flight]))]
        /\ flights' = Referenced(flights, inFlight, callers')
        /\ UNCHANGED <<cacheVars, lockVars, inFlight, synthCalls, serverVars>>

\* what SynthesizeToMP3 may return: a clip, or an error
SynthOutcomes == {[err |-> NoErr, audioData |-> a] : a \in Clips}
                 \cup {[err |-> <<"Azure API error (status 429)">>, audioData |-> NoBytes]}

\* (mutant) after a failed synthesis the leader still goes on to the Put
SynthReturnStoresFailure(p, Outcomes) ==
    \E out \in Outcomes :
        LET c == callers[p]
        IN  /\ c.pc = "synth"
            /\ flights' = IF out.err # NoErr
                           THEN [flights EXCEPT ![c.flight].err =
                                    Wrap("Azure synthesis failed", out.err)]
                           ELSE flights
            /\ callers' = [callers EXCEPT ![p].pc = "put", ![p].err = out.err,
                                          ![p].audioData = out.audioData]
            /\ UNCHANGED <<cacheVars, lockVars, inFlight, synthCalls, serverVars>>

\* GetAudio, lines 73-75: SynthesizeToMP3 returns; an error is recorded on the flight
SynthReturn(p, Outcomes) ==
    \E out \in Outcomes :
        LET c == callers[p]
        IN  /\ c.pc = "synth"
            /\ IF out.err # NoErr
               THEN /\ flights' = [flights EXCEPT ![c.flight].err =
                                       Wrap("Azure synthesis failed", out.err)]
                    /\ callers' = [callers EXCEPT ![p].pc = "remove", ![p].err = out.err]
               ELSE /\ callers' = [callers EXCEPT ![p].pc = "put",
                                                  ![p].audioData = out.audioData]
                    /\ UNCHANGED flights
            /\ UNCHANGED <<cacheVars, lockVars, inFlight, synthCalls, serverVars>>

\* (mutant) a failed Put fails the request
FlightAfterPutFatal(f, audioData, key, put) ==
    IF put.err # NoErr
    THEN [f EXCEPT !.err = Wrap("caching failed", put.err)]
    ELSE [f EXCEPT !.audioData = audioData, !.cacheKey = put.cacheKey, !.cached = FALSE]

\* GetAudio, lines 79-87: the flight after the Put; a failed Put is only logged
FlightAfterPut(f, audioData, key, put) ==
    [f EXCEPT !.audioData = audioData,
              !.cacheKey = IF put.err # NoErr THEN key ELSE put.cacheKey,
              !.cached = FALSE]

\* GetAudio, lines 77-87: the leader stores the clip and fills the flight in
GetAudioPut(p, Oks) ==
    \E dbOk \in Oks :
        LET c == callers[p]
            put == Put(table, c.text, c.lang, c.audioData, dbOk)
        IN  /\ c.pc = "put"
            /\ table' = put.table
            /\ evictPending' = IF put.evict THEN evictPending + 1 ELSE evictPending
            /\ flights' = [flights EXCEPT ![c.flight] =
                              FlightAfterPut(@, c.audioData, c.key, put)]
            /\ callers' = [callers EXCEPT ![p].pc = "remove", ![p].err = put.err]
            /\ UNCHANGED <<schema, compressionEnabled, maxSizeBytes, lockVars, now, touches, recompressions,
                           evictRunning, inFlight, synthCalls, serverVars>>

\* GetAudio, lines 90-93: delete(s.inFlight, key) under inFlightMu
GetAudioRemove(p) ==
    LET c == callers[p]
    IN  /\ c.pc = "remove"
        /\ inFlight' = RemoveFlight(inFlight, c.key)
        /\ callers' = [callers EXCEPT ![p].pc = "close"]
        /\ UNCHANGED <<cacheVars, lockVars, flights, synthCalls, serverVars>>

\* (mutant) the leader closes done only when the fetch succeeded
GetAudioCloseOnSuccess(p) ==
    LET c == callers[p]
        ok == flights[c.flight].err = NoErr
    IN  /\ c.pc = "close"
        /\ callers' = [callers EXCEPT ![p] =
              Returned(@, c.op, c.text, c.lang, FlightResult(flights[c.flight]))]
        /\ flights' = Referenced([flights EXCEPT ![c.flight].done = ok], inFlight, callers')
        /\ UNCHANGED <<cacheVars, lockVars, inFlight, synthCalls, serverVars>>

\* GetAudio, lines 94-96: close(flight.done) and return the flight's outcome
GetAudioClose(p) ==
    LET c == callers[p]
    IN  /\ c.pc = "close"
        /\ callers' = [callers EXCEPT ![p] =
              Returned(@, c.op, c.text, c.lang, FlightResult(flights[c.flight]))]
        /\ flights' = Referenced([flights EXCEPT ![c.flight].done = TRUE], inFlight, callers')
        /\ UNCHANGED <<cacheVars, lockVars, inFlight, synthCalls, serverVars>>

\* the caller holds inFlightMu
Locked(p) == inFlightMu = p

\* GetAudio, lines 57 and 91: s.inFlightMu.Lock() blocks until the mutex is free
GetAudioLock(p) ==
    /\ callers[p].pc \in {"check", "remove"}
    /\ inFlightMu = 0
    /\ inFlightMu' = p
    /\ UNCHANGED <<cacheVars, serviceVars, serverVars>>

\* (mutant) the leader keeps the mutex from the registration to the end of
\* the fetch: only a waiter, line 60, and line 93 unlock
GetAudioUnlockDeferred(p) ==
    /\ Locked(p)
    /\ callers[p].pc \in {"wait", "close"}
    /\ inFlightMu' = 0
    /\ UNCHANGED <<cacheVars, serviceVars, serverVars>>

\* GetAudio, lines 60, 70 and 93: s.inFlightMu.Unlock(), after the map was
\* read (a waiter), written (the leader) or the key deleted
GetAudioUnlock(p) ==
    /\ Locked(p)
    /\ callers[p].pc \in {"wait", "synth", "close"}
    /\ inFlightMu' = 0
    /\ UNCHANGED <<cacheVars, serviceVars, serverVars>>

\* GetAudio, lines 57-70 and 91-93: what the caller does between Lock and
\* Unlock, or the Unlock
GetAudioLocked(p) ==
    \/ Locked(p) /\ GetAudioCheck(p)
    \/ Locked(p) /\ GetAudioRemove(p)
    \/ GetAudioUnlock(p)

\* GetAudio, lines 61, 73, 78 and 94: what the caller does after an Unlock
GetAudioUnlocked(p, Outcomes, Oks) ==
    \/ ~Locked(p) /\ GetAudioWait(p)
    \/ ~Locked(p) /\ SynthReturn(p, Outcomes)
    \/ ~Locked(p) /\ GetAudioPut(p, Oks)
    \/ ~Locked(p) /\ GetAudioClose(p)

\* Service.GetCachedAudio
GetCachedAudio(p, Reqs, Oks) ==
    \E rq \in Reqs, dbOk \in Oks :
        LET g == Get(table, rq.text, rq.lang, dbOk)
        IN  /\ Free(p)
            /\ SpawnedBy(g, rq.text, rq.lang)
            /\ callers' = [callers EXCEPT ![p] =
                  Returned(@, "GetCachedAudio", rq.text, rq.lang,
                    IF g.err # NoErr THEN LookupFailed(g.err)
                    ELSE IF ~g.found THEN MissResult(rq.text, rq.lang)
                    ELSE HitResult(g.audio))]
            /\ UNCHANGED <<table, schema, compressionEnabled, maxSizeBytes, lockVars, now, evictPending,
                           evictRunning, inFlight, flights, synthCalls, serverVars>>

\* (mutant) a delete also drops the key's flight from the in-flight map
DeleteCachedCancelsFlight(p, Reqs, Oks) ==
    \E rq \in Reqs, dbOk \in Oks :
        LET d == Delete(table, rq.text, rq.lang, dbOk)
        IN  /\ Free(p)
            /\ table' = d.table
            /\ inFlight' = RemoveFlight(inFlight, GenerateCacheKey(rq.text, rq.lang))
            /\ callers' = [callers EXCEPT ![p] =
                  Returned(@, "DeleteCached", rq.text, rq.lang,
                    IF d.err # NoErr
                    THEN Result(NoBytes, d.cacheKey, FALSE, Wrap("cache delete failed", d.err))
                    ELSE Result(NoBytes, d.cacheKey, d.deleted, NoErr))]
            /\ UNCHANGED <<schema, compressionEnabled, maxSizeBytes, lockVars, now, touches, recompressions,
                           evictPending, evictRunning, flights, synthCalls, serverVars>>

\* Service.DeleteCached
DeleteCached(p, Reqs, Oks) ==
    \E rq \in Reqs, dbOk \in Oks :
        LET d == Delete(table, rq.text, rq.lang, dbOk)
        IN  /\ Free(p)
            /\ table' = d.table
            /\ callers' = [callers EXCEPT ![p] =
                  Returned(@, "DeleteCached", rq.text, rq.lang,
                    IF d.err # NoErr
                    THEN Result(NoBytes, d.cacheKey, FALSE, Wrap("cache delete failed", d.err))
                    ELSE Result(NoBytes, d.cacheKey, d.deleted, NoErr))]
            /\ UNCHANGED <<schema, compressionEnabled, maxSizeBytes, lockVars, now, touches, recompressions,
                           evictPending, evictRunning, inFlight, flights, synthCalls, serverVars>>

\* A caller of GenerateCacheKey alone: the key is what it returns
DeriveKey(p, Texts, Langs) ==
    \E text \in Texts, lang \in Langs :
        /\ Free(p)
        /\ callers' = [callers EXCEPT ![p] =
              Returned(@, "GenerateCacheKey", text, lang,
                       Result(NoBytes, GenerateCacheKey(text, lang), FALSE, NoErr))]
        /\ UNCHANGED <<cacheVars, lockVars, inFlight, flights, synthCalls, serverVars>>

----------------------------------------------------------------------------
(* The gRPC Server (server.go) and Service.BulkGetAudio *)

\* (mutant) the handler does not look at the request's fields
ValidationErrorNone(rq) == NoErr

\* the checks every handler makes first: the text, then the language code
ValidationError(rq) ==
    IF rq.text = <<>> THEN <<"text is required">>
    ELSE IF rq.lang = <<>> THEN <<"language_code is required">>
    ELSE NoErr

\* the handler returns err without calling the Service
Rejected(c, op, rq, err) ==
    Returned(c, op, rq.text, rq.lang, Result(NoBytes, NoKey, FALSE, err))

\* Server.FetchTTS, up to the first step of GetAudio
FetchTTS(p, Reqs, Forces, Oks) ==
    \E rq \in Reqs, force \in Forces, dbOk \in Oks :
        /\ Free(p)
        /\ IF ValidationError(rq) # NoErr
           THEN /\ callers' = [callers EXCEPT ![p] =
                      Rejected(@, "FetchTTS", rq, ValidationError(rq))]
                /\ UNCHANGED <<cacheVars, lockVars, inFlight, flights, synthCalls, serverVars>>
           ELSE GetAudioBegin(p, rq, force, dbOk)

\* Server.DeleteCached, lines 174-183, then Service.DeleteCached; the caller keeps
\* what the Service returned, which the handler turns into a DeleteResponse
ServerDeleteCached(p, Reqs, Oks) ==
    \E rq \in Reqs :
        /\ Free(p)
        /\ IF ValidationError(rq) # NoErr
           THEN /\ callers' = [callers EXCEPT ![p] =
                      Rejected(@, "DeleteCached", rq, ValidationError(rq))]
                /\ UNCHANGED <<cacheVars, lockVars, inFlight, flights, synthCalls, serverVars>>
           ELSE DeleteCached(p, {rq}, Oks)

\* %d of a small number
IndexString(i) == <<"0", "1", "2", "3", "4", "5", "6", "7", "8", "9">>[i + 1]

\* the first request of the batch that fails the checks, or 0
FirstInvalid(items) ==
    IF \A i \in 1..Len(items) : ValidationError(items[i]) = NoErr THEN 0
    ELSE CHOOSE i \in 1..Len(items) :
            /\ ValidationError(items[i]) # NoErr
            /\ \A j \in 1..(i - 1) : ValidationError(items[j]) = NoErr

\* BulkFetchTTS, lines 56-68
BatchError(items) ==
    IF Len(items) = 0 THEN <<"at least one request is required">>
    ELSE IF FirstInvalid(items) # 0
    THEN <<"request", IndexString(FirstInvalid(items) - 1)>>
         \o ValidationError(items[FirstInvalid(items)])
    ELSE NoErr

\* a BulkTTSResponse, or the error returned in its place
NoBulkResponse == [err |-> NoErr, responses |-> <<>>]

\* the handler before its call
NoBulk == [pc |-> "idle", requests |-> <<>>, force |-> FALSE, workers |-> <<>>,
           resp |-> NoBulkResponse]

\* the n lowest callers that have not started: the goroutines BulkGetAudio spawns
RECURSIVE LowestFree(_, _)
LowestFree(free, n) ==
    IF n = 0 THEN <<>>
    ELSE LET m == CHOOSE x \in free : \A y \in free : x <= y
         IN  <<m>> \o LowestFree(free \ {m}, n - 1)

\* Server.BulkFetchTTS, lines 55-82, and BulkGetAudio, lines 107-126: the
\* checks, the shared force flag, and one goroutine per request
BulkFetchTTS(Batches) ==
    \E items \in Batches :
        /\ bulk.pc = "idle"
        /\ IF BatchError(items) # NoErr
           THEN /\ bulk' = [NoBulk EXCEPT !.pc = "done", !.requests = items,
                                          !.resp.err = BatchError(items)]
                /\ UNCHANGED callers
           ELSE LET free == {p \in Callers : Free(p)}
                    ws == LowestFree(free, Len(items))
                    force == \E i \in 1..Len(items) : items[i].force
                    idx(p) == CHOOSE i \in 1..Len(items) : ws[i] = p
                IN  /\ Len(items) <= Cardinality(free)
                    /\ bulk' = [NoBulk EXCEPT !.pc = "running", !.requests = items,
                                              !.force = force, !.workers = ws]
                    /\ callers' = [p \in Callers |->
                          IF \E i \in 1..Len(items) : ws[i] = p
                          THEN [IdleCaller EXCEPT !.pc = "spawned", !.op = "GetAudio",
                                                  !.text = items[idx(p)].text,
                                                  !.lang = items[idx(p)].lang,
                                                  !.force = force]
                          ELSE callers[p]]
        /\ UNCHANGED <<cacheVars, lockVars, inFlight, flights, synthCalls, cancelled>>

\* BulkGetAudio, line 120: a spawned goroutine calls GetAudio
BulkWorker(p, Oks) ==
    \E dbOk \in Oks :
        /\ callers[p].pc = "spawned"
        /\ GetAudioBegin(p, [text |-> callers[p].text, lang |-> callers[p].lang],
                         callers[p].force, dbOk)

\* a pb.TTSResponse
TTSResponse(r) ==
    [Cached |-> r.flag, AudioData |-> r.audioData, CacheKey |-> r.cacheKey,
     AudioSize |-> ByteLen(r.audioData)]

\* (mutant) the responses of the requests that succeeded are returned with the error
BulkResponsePartial(results) ==
    [err |-> IF \A i \in 1..Len(results) : results[i].err = NoErr THEN NoErr
             ELSE <<"request failed">>,
     responses |-> [i \in 1..Len(results) |-> TTSResponse(results[i])]]

\* BulkFetchTTS, lines 84-108: the first failed result fails the call
BulkResponse(results) ==
    IF \E i \in 1..Len(results) : results[i].err # NoErr
    THEN LET i == CHOOSE k \in 1..Len(results) :
                     /\ results[k].err # NoErr
                     /\ \A j \in 1..(k - 1) : results[j].err = NoErr
         IN  [err |-> <<"request", IndexString(i - 1), "failed">> \o results[i].err,
              responses |-> <<>>]
    ELSE [err |-> NoErr,
          responses |-> [i \in 1..Len(results) |-> TTSResponse(results[i])]]

\* BulkGetAudio, lines 121-129, and BulkFetchTTS, lines 84-108: every goroutine
\* has stored its result at its index; the handler builds the response
BulkFinish ==
    /\ bulk.pc = "running"
    /\ \A i \in 1..Len(bulk.workers) : callers[bulk.workers[i]].pc = "returned"
    /\ LET results == [i \in 1..Len(bulk.workers) |-> callers[bulk.workers[i]].ret]
       IN  bulk' = [bulk EXCEPT !.pc = "done", !.resp = BulkResponse(results)]
    /\ UNCHANGED <<cacheVars, lockVars, serviceVars, cancelled>>

\* the client cancels the context of p's request; no handler reads it
CancelContext(p) ==
    /\ callers[p].pc \notin {"idle", "returned"}
    /\ p \notin cancelled
    /\ cancelled' = cancelled \cup {p}
    /\ UNCHANGED <<cacheVars, lockVars, serviceVars, bulk>>

----------------------------------------------------------------------------
(* Spec: the Service under concurrent callers.  Each caller makes one call,  *)
(* GetAudio (forced or not), GetCachedAudio or DeleteCached, with any         *)
(* arguments; queries and writes may fail; the goroutines spawned by reads    *)
(* run at any time.  The cache file holds a row of an earlier run that had    *)
(* compression off.  No size limit is set and the clock stands still.         *)

\* a row left by an earlier run of the daemon that had compression disabled
LegacyRow == RowWritten(FALSE, 0, <<"h", "i">>, <<"f", "r">>, << <<1, 2>> >>)

\* a database file with the given tables and schemas, opened at one of the
\* given times by a Cache with the given settings
InitFile(tables, schemas, compressions, limits, times) ==
    /\ table \in tables
    /\ schema \in schemas
    /\ compressionEnabled \in compressions
    /\ maxSizeBytes \in limits
    /\ now \in times
    /\ touches = {}
    /\ recompressions = {}
    /\ evictPending = 0
    /\ evictRunning = EmptyBag
    /\ inFlight = [k \in Keys |-> NoFlight]
    /\ inFlightMu = 0
    /\ flights = << >>
    /\ callers = [p \in Callers |-> IdleCaller]
    /\ synthCalls = [k \in Keys |-> 0]
    /\ bulk = NoBulk
    /\ cancelled = {}

\* a file with the current schema, opened at second 0
InitService(tables, compressions, limits) ==
    InitFile(tables, {CurrentSchema}, compressions, limits, {0})

Init == InitService({{LegacyRow}}, BOOLEAN, {0})

Next ==
    \/ \E p \in Callers : GetAudioLookup(p, Requests, BOOLEAN, BOOLEAN)
    \/ \E p \in Callers : GetAudioCheck(p)
    \/ \E p \in Callers : GetAudioWait(p)
    \/ \E p \in Callers : SynthReturn(p, SynthOutcomes)
    \/ \E p \in Callers : GetAudioPut(p, BOOLEAN)
    \/ \E p \in Callers : GetAudioRemove(p)
    \/ \E p \in Callers : GetAudioClose(p)
    \/ \E p \in Callers : GetCachedAudio(p, Requests, BOOLEAN)
    \/ \E p \in Callers : DeleteCached(p, Requests, BOOLEAN)
    \/ TouchRun(BOOLEAN)
    \/ RecompressRun(BOOLEAN)

Spec == Init /\ [][Next]_vars

(* The burst: every caller asks once for the same clip, unforced, against an  *)
(* empty cache; the database and the synthesizer do not fail.                 *)

BurstRequest == [text |-> <<"H", "i", "!">>, lang |-> <<"e", "n">>]
BurstKey == GenerateCacheKey(BurstRequest.text, BurstRequest.lang)

InitBurst == InitService({{}}, BOOLEAN, {0})

NextBurst ==
    \/ \E p \in Callers : GetAudioLookup(p, {BurstRequest}, {FALSE}, {TRUE})
    \/ \E p \in Callers : GetAudioCheck(p)
    \/ \E p \in Callers : GetAudioWait(p)
    \/ \E p \in Callers : SynthReturn(p, {o \in SynthOutcomes : o.err = NoErr})
    \/ \E p \in Callers : GetAudioPut(p, {TRUE})
    \/ \E p \in Callers : GetAudioRemove(p)
    \/ \E p \in Callers : GetAudioClose(p)
    \/ TouchRun({TRUE})

SpecBurst == InitBurst /\ [][NextBurst]_vars

(* The eviction scenario: a cache with a limit of 1,000,000 bytes and         *)
(* compression off receives NumInserts clips of 100,000 bytes under distinct  *)
(* keys, one per second; each Put spawns evictIfNeeded, which runs at any     *)
(* later time; the inserter waits while MaxBacklog of them are unfinished;    *)
(* the database does not fail.                                                *)

EntryBytes == 100 * 1000
LimitBytes == 10 * EntryBytes

\* the i-th inserted entry: its text, and the time Put stamps on it
EntryRequest(i) == [text |-> [j \in 1..i |-> "a"], lang |-> <<"e", "n">>]
EntryKey(i) == GenerateCacheKey(EntryRequest(i).text, EntryRequest(i).lang)
EntryClip == << <<7, EntryBytes>> >>

InsertEntry ==
    /\ now < NumInserts
    /\ evictPending + BagCardinality(evictRunning) < MaxBacklog
    /\ CachePut({EntryRequest(now + 1)}, {EntryClip}, {TRUE})

InitEvict == InitService({{}}, {FALSE}, {LimitBytes})

NextEvict ==
    \/ InsertEntry
    \/ EvictRead({TRUE})
    \/ EvictDelete({TRUE})

SpecEvict == InitEvict /\ [][NextEvict]_vars

(* Key derivation: one caller derives the key of one text and language code;  *)
(* the texts are four phrases and every string of up to MaxLen characters     *)
(* over a letter in both cases, two whitespace characters and two             *)
(* punctuation characters.                                                    *)

EnUS == <<"e", "n", "-", "U", "S">>
FrFR == <<"f", "r", "-", "F", "R">>
KeyLangs == {EnUS, FrFR}

HelloWorldRaw == <<"H", "e", "l", "l", "o", ",", " ", "W", "o", "r", "l", "d", "!">>
HelloCommaWorld == <<"h", "e", "l", "l", "o", ",", " ", "w", "o", "r", "l", "d">>
HelloWorld == <<"h", "e", "l", "l", "o", " ", "w", "o", "r", "l", "d">>
Hello == <<"h", "e", "l", "l", "o">>

KeyAlphabet == {"h", "H", " ", "\t", "!", ","}
KeyTexts == {HelloWorldRaw, HelloCommaWorld, HelloWorld, Hello}
            \cup UNION {[1..n -> KeyAlphabet] : n \in 0..MaxLen}

InitKeys == InitService({{}}, {FALSE}, {0})

NextKeys ==
    \E p \in Callers :
        /\ \A q \in Callers : Free(q)
        /\ DeriveKey(p, KeyTexts, KeyLangs)

SpecKeys == InitKeys /\ [][NextKeys]_vars

(* Keys of requests with colons: one caller derives the key of a text and a   *)
(* language code of up to MaxLen characters, each a letter or a colon; the     *)
(* language code is not empty, which is all the server asks of it.             *)

ColonAlphabet == {"h", ":"}
ColonTexts == UNION {[1..n -> ColonAlphabet] : n \in 0..MaxLen}
ColonLangs == UNION {[1..n -> ColonAlphabet] : n \in 1..MaxLen}

InitColon == InitService({{}}, {FALSE}, {0})

NextColon ==
    \E p \in Callers :
        /\ \A q \in Callers : Free(q)
        /\ DeriveKey(p, ColonTexts, ColonLangs)

SpecColon == InitColon /\ [][NextColon]_vars

(* The server: a BulkFetchTTS request of up to MaxBatch items may arrive      *)
(* first, an item with or without force_refresh, and the callers send        *)
(* FetchTTS and DeleteCached requests; a text or a language code may be       *)
(* empty; synthesis may fail.  The cache starts empty, without compression.   *)

ServerRequests == Requests \cup {[text |-> <<>>, lang |-> <<"e", "n">>],
                                 [text |-> <<"h", "i">>, lang |-> <<>>]}

\* the requests sent one at a time
DirectRequests == (ServerRequests \ Requests)
                  \cup {[text |-> <<"H", "i", "!">>, lang |-> <<"e", "n">>]}

\* the items of a batch
BatchItems == {[text |-> rq.text, lang |-> rq.lang, force |-> FALSE] :
                  rq \in ServerRequests}
              \cup {[text |-> <<"H", "i", "!">>, lang |-> <<"e", "n">>, force |-> TRUE]}

Batches == UNION {[1..n -> BatchItems] : n \in 0..MaxBatch}

\* SynthesizeToMP3 returns a clip or fails
ServerOutcomes == {[err |-> NoErr, audioData |-> << <<1, 2>> >>],
                   [err |-> <<"Azure API error (status 429)">>, audioData |-> NoBytes]}

InitServer == InitService({{}}, {FALSE}, {0})

NextServer ==
    \/ \E p \in Callers : FetchTTS(p, DirectRequests, {FALSE}, {TRUE})
    \/ \E p \in Callers : ServerDeleteCached(p, DirectRequests, {TRUE})
    \/ (\A p \in Callers : Free(p)) /\ BulkFetchTTS(Batches)
    \/ \E p \in Callers : BulkWorker(p, {TRUE})
    \/ \E p \in Callers : GetAudioCheck(p)
    \/ \E p \in Callers : GetAudioWait(p)
    \/ \E p \in Callers : SynthReturn(p, ServerOutcomes)
    \/ \E p \in Callers : GetAudioPut(p, {TRUE})
    \/ \E p \in Callers : GetAudioRemove(p)
    \/ \E p \in Callers : GetAudioClose(p)
    \/ BulkFinish
    \/ TouchRun({TRUE})

SpecServer == InitServer /\ [][NextServer]_vars

(* Cancellation: the callers send FetchTTS requests for one clip, forced or   *)
(* not, against an empty cache; a client may cancel its request at any time.  *)

InitCancel == InitService({{}}, {FALSE}, {0})

NextCancel ==
    \/ \E p \in Callers : FetchTTS(p, {BurstRequest}, BOOLEAN, {TRUE})
    \/ \E p \in Callers : GetAudioCheck(p)
    \/ \E p \in Callers : GetAudioWait(p)
    \/ \E p \in Callers : SynthReturn(p, SynthOutcomes)
    \/ \E p \in Callers : GetAudioPut(p, BOOLEAN)
    \/ \E p \in Callers : GetAudioRemove(p)
    \/ \E p \in Callers : GetAudioClose(p)
    \/ \E p \in Callers : CancelContext(p)
    \/ TouchRun({TRUE})

SpecCancel == InitCancel /\ [][NextCancel]_vars

(* The switch to compression: a daemon with compression disabled writes      *)
(* entries, one per second and each key once, on an empty file or on the file *)
(* of an earlier run; it is then restarted with compression enabled, and      *)
(* callers read entries from the cache only; queries and touches may fail; a  *)
(* spawned recompression does run, and its UPDATE succeeds.                   *)

\* the daemon writes an entry that is not stored yet
WriteOnce ==
    \E rq \in Requests :
        /\ ~compressionEnabled
        /\ RowsWithKey(table, GenerateCacheKey(rq.text, rq.lang)) = {}
        /\ CachePut({rq}, Clips, {TRUE})

\* the daemon exits and NewCache opens the file with compression enabled; the
\* goroutines of the old process are gone
Reopen ==
    /\ ~compressionEnabled
    /\ compressionEnabled' = TRUE
    /\ touches' = {} /\ recompressions' = {}
    /\ evictPending' = 0 /\ evictRunning' = EmptyBag
    /\ UNCHANGED <<table, schema, maxSizeBytes, lockVars, now, serviceVars, serverVars>>

InitTransition == InitService({{}, {LegacyRow}}, {FALSE}, {0})

NextTransition ==
    \/ WriteOnce
    \/ Reopen
    \/ \E p \in Callers : compressionEnabled /\ GetCachedAudio(p, Requests, BOOLEAN)
    \/ TouchRun(BOOLEAN)
    \/ RecompressRun({TRUE})

SpecTransition ==
    InitTransition /\ [][NextTransition]_vars /\ WF_vars(RecompressRun({TRUE}))

(* Termination: the callers fetch the two clips, forced or not, against an    *)
(* empty cache; synthesis and the cache write may fail.  Every goroutine that  *)
(* can take a step eventually takes it, and every SynthesizeToMP3 call         *)
(* returns.                                                                    *)

InitFlights == InitService({{}}, {FALSE}, {0})

\* the steps of caller p after its call has started
CallerStep(p) ==
    \/ GetAudioCheck(p)
    \/ GetAudioWait(p)
    \/ SynthReturn(p, ServerOutcomes)
    \/ GetAudioPut(p, BOOLEAN)
    \/ GetAudioRemove(p)
    \/ GetAudioClose(p)

NextFlights ==
    \/ \E p \in Callers : GetAudioLookup(p, Requests, BOOLEAN, {TRUE})
    \/ \E p \in Callers : CallerStep(p)
    \/ TouchRun({TRUE})

\* GetAudio with its mutex written out: on an empty cache, callers ask for either
\* of two keys
InitLock == InitService({{}}, {FALSE}, {0})

NextLock ==
    \/ \E p \in Callers : GetAudioLookup(p, Requests, BOOLEAN, {TRUE})
    \/ \E p \in Callers : GetAudioLock(p)
    \/ \E p \in Callers : GetAudioLocked(p)
    \/ \E p \in Callers : GetAudioUnlocked(p, ServerOutcomes, {TRUE})
    \/ TouchRun({TRUE})

SpecLock == InitLock /\ [][NextLock]_vars

SpecFlights ==
    InitFlights /\ [][NextFlights]_vars /\ \A p \in Callers : WF_vars(CallerStep(p))

(* The schema upgrade: NewCache opens a new file, a file written by the first  *)
(* version of the daemon (no compression and no last_accessed column), or one   *)
(* written by the version that had compression but no last_accessed; any        *)
(* statement of initSchema may fail, and the daemon is then started again.      *)

\* a row as the first version of the daemon wrote it
FirstRow(ts, text, languageCode, audioData) ==
    [cache_key     |-> GenerateCacheKey(text, languageCode),
     text          |-> text,
     language_code |-> languageCode,
     audio_data    |-> audioData,
     audio_size    |-> ByteLen(audioData),
     created_at    |-> ts]

\* a row as the version with compression and without last_accessed wrote it
SecondRow(compress, ts, text, languageCode, audioData) ==
    LET r == RowWritten(compress, ts, text, languageCode, audioData)
    IN  [c \in DOMAIN r \ {"last_accessed"} |-> r[c]]

FirstRows == {FirstRow(0, <<"h", "i">>, <<"f", "r">>, << <<1, 2>> >>),
              FirstRow(1, <<"H", "i", "!">>, <<"e", "n">>, << <<2, 1>> >>),
              FirstRow(1, <<"i">>, <<"e", "n">>, << <<1, 1>>, <<2, 1>> >>)}

SecondRows == {SecondRow(FALSE, 0, <<"h", "i">>, <<"f", "r">>, << <<1, 2>> >>),
               SecondRow(TRUE, 1, <<"H", "i", "!">>, <<"e", "n">>, << <<2, 1>> >>)}

\* the statements of initSchema that may fail
Fails == 0..Len(SchemaStatements)

InitMigrate ==
    \/ InitFile({{}}, {[columns |-> {}, err |-> NoErr]}, BOOLEAN, {0}, {2})
    \/ InitFile(SUBSET FirstRows, {[columns |-> CreatedColumns, err |-> NoErr]},
                BOOLEAN, {0}, {2})
    \/ InitFile(SUBSET SecondRows,
                {[columns |-> CreatedColumns \cup {"compression"}, err |-> NoErr]},
                BOOLEAN, {0}, {2})

NextMigrate == OpenCache(Fails)

SpecMigrate == InitMigrate /\ [][NextMigrate]_vars

(* The cache scenario: a cache with a limit of 1 MB, opened with or without   *)
(* compression on an empty file or on the file of an earlier run, receives up *)
(* to MaxPuts Puts, one per second, and any number of Gets and Deletes; the   *)
(* goroutines they spawn run at any later time; a Put waits for the eviction  *)
(* passes spawned before it; queries and writes may fail.                     *)

CacheLimit == 1024 * 1024

CacheRequests == Requests \cup {[text |-> <<"i">>, lang |-> <<"e", "n">>]}
CacheClips == {<< <<1, 600 * 1000>> >>}

CacheWrite ==
    /\ now < MaxPuts
    /\ evictPending = 0 /\ evictRunning = EmptyBag
    /\ CachePut(CacheRequests, CacheClips, BOOLEAN)

CacheRead ==
    /\ Cardinality(touches) < MaxSpawned
    /\ CacheGet(CacheRequests, BOOLEAN)

InitCache == InitService({{}, {LegacyRow}}, BOOLEAN, {CacheLimit})

NextCache ==
    \/ CacheWrite
    \/ CacheRead
    \/ CacheDelete(CacheRequests, BOOLEAN)
    \/ TouchRun(BOOLEAN)
    \/ RecompressRun(BOOLEAN)
    \/ EvictRead(BOOLEAN)
    \/ EvictDelete(BOOLEAN)

SpecCache == InitCache /\ [][NextCache]_vars

(* Background work: the service runs with a limit of 1 MB on the file of an   *)
(* earlier run; callers fetch two clips of 600,000 bytes, forced or not; the   *)
(* clock advances; the touches, recompressions and eviction passes spawned by  *)
(* the calls run at any later time, and each of them may fail.                 *)

BackgroundOutcomes == {[err |-> NoErr, audioData |-> << <<1, 600 * 1000>> >>]}

InitBackground == InitService({{LegacyRow}}, BOOLEAN, {CacheLimit})

NextBackground ==
    \/ \E p \in Callers : GetAudioLookup(p, Requests, BOOLEAN, {TRUE})
    \/ \E p \in Callers : GetAudioCheck(p)
    \/ \E p \in Callers : GetAudioWait(p)
    \/ \E p \in Callers : SynthReturn(p, BackgroundOutcomes)
    \/ \E p \in Callers : GetAudioPut(p, {TRUE})
    \/ \E p \in Callers : GetAudioRemove(p)
    \/ \E p \in Callers : GetAudioClose(p)
    \/ Tick
    \/ TouchRun(BOOLEAN)
    \/ RecompressRun(BOOLEAN)
    \/ EvictRead(BOOLEAN)
    \/ EvictDelete(BOOLEAN)

SpecBackground == InitBackground /\ [][NextBackground]_vars

(* Ties: a cache with a limit of 1 MB is opened at second 2 on a file that    *)
(* holds up to three clips of 600,000 bytes, each last accessed at second 0 or *)
(* 1, so that entries may share their last_accessed; it receives up to MaxPuts *)
(* Puts, one per second, each of which waits for the passes spawned before it; *)
(* the database does not fail.                                                 *)

\* the second at which the cache is opened
TiesStart == 1 + 1

\* the files of the earlier run: every key is stored at most once
TiesTables ==
    {{RowWritten(FALSE, ts[rq], rq.text, rq.lang, << <<1, 600 * 1000>> >>) :
         rq \in {x \in CacheRequests : ts[x] >= 0}} :
       ts \in [CacheRequests -> {NullTime, 0, 1}]}

TiesWrite ==
    /\ now < TiesStart + MaxPuts
    /\ evictPending = 0 /\ evictRunning = EmptyBag
    /\ CachePut(CacheRequests, CacheClips, {TRUE})

InitTies == InitFile(TiesTables, {CurrentSchema}, {FALSE}, {CacheLimit}, {TiesStart})

NextTies ==
    \/ TiesWrite
    \/ EvictRead({TRUE})
    \/ EvictDelete({TRUE})

SpecTies == InitTies /\ [][NextTies]_vars

(* Touches: a cache without compression holds three entries written at second *)
(* 0; they are read at any time while the clock advances, nothing is put,       *)
(* deleted or evicted, and the touches the reads spawn run at any later time.   *)

\* the entries of the file
TouchTable == {RowWritten(FALSE, 0, rq.text, rq.lang, << <<1, 2>> >>) : rq \in CacheRequests}

InitTouch == InitService({TouchTable}, {FALSE}, {0})

NextTouch ==
    \/ CacheGet(CacheRequests, {TRUE})
    \/ Tick
    \/ TouchRun(BOOLEAN)

SpecTouch == InitTouch /\ [][NextTouch]_vars

(* Codec failures: the file holds, for one key, an entry marked zstd that is  *)
(* either a frame written by a run with compression on or not a frame at all;  *)
(* the service is started with or without compression.  Callers fetch, forced  *)
(* or not, read and delete; queries may fail.                                  *)

\* the entry of a run that had compression on
CompressedRow == RowWritten(TRUE, 0, <<"h", "i">>, <<"f", "r">>, << <<1, 2>> >>)

\* an entry marked zstd whose bytes are no frame
CorruptRow == [CompressedRow EXCEPT !.audio_data = << <<1, 2>> >>, !.audio_size = 1 + 1]

InitCodec == InitService({{CompressedRow}, {CorruptRow}}, BOOLEAN, {0})

NextCodec ==
    \/ \E p \in Callers : GetAudioLookup(p, Requests, BOOLEAN, BOOLEAN)
    \/ \E p \in Callers : GetAudioCheck(p)
    \/ \E p \in Callers : GetAudioWait(p)
    \/ \E p \in Callers : SynthReturn(p, ServerOutcomes)
    \/ \E p \in Callers : GetAudioPut(p, {TRUE})
    \/ \E p \in Callers : GetAudioRemove(p)
    \/ \E p \in Callers : GetAudioClose(p)
    \/ \E p \in Callers : GetCachedAudio(p, Requests, {TRUE})
    \/ \E p \in Callers : DeleteCached(p, Requests, {TRUE})
    \/ TouchRun({TRUE})

SpecCodec == InitCodec /\ [][NextCodec]_vars

(* Failing synthesis: the service runs with a limit of 1 MB on the file of an *)
(* earlier run; callers fetch two clips of 600,000 bytes, forced or not, and   *)
(* read the cache; SynthesizeToMP3 may fail; the goroutines run at any time.   *)

FailureOutcomes ==
    BackgroundOutcomes
    \cup {[err |-> <<"Azure API error (status 429)">>, audioData |-> NoBytes]}

InitFailure == InitService({{LegacyRow}}, BOOLEAN, {CacheLimit})

NextFailure ==
    \/ \E p \in Callers : GetAudioLookup(p, Requests, BOOLEAN, {TRUE})
    \/ \E p \in Callers : GetAudioCheck(p)
    \/ \E p \in Callers : GetAudioWait(p)
    \/ \E p \in Callers : SynthReturn(p, FailureOutcomes)
    \/ \E p \in Callers : GetAudioPut(p, {TRUE})
    \/ \E p \in Callers : GetAudioRemove(p)
    \/ \E p \in Callers : GetAudioClose(p)
    \/ \E p \in Callers : GetCachedAudio(p, Requests, {TRUE})
    \/ TouchRun({TRUE})
    \/ RecompressRun({TRUE})
    \/ EvictRead({TRUE})
    \/ EvictDelete({TRUE})

SpecFailure == InitFailure /\ [][NextFailure]_vars

(* The miss path: no size limit, nothing is deleted and no Put fails; callers *)
(* fetch two keys, forced or not, on an empty file or on the file of an        *)
(* earlier run; SynthesizeToMP3 returns one of two clips, or fails.            *)

InitMiss == InitService({{}, {LegacyRow}}, BOOLEAN, {0})

NextMiss ==
    \/ \E p \in Callers : GetAudioLookup(p, Requests, BOOLEAN, {TRUE})
    \/ \E p \in Callers : GetAudioCheck(p)
    \/ \E p \in Callers : GetAudioWait(p)
    \/ \E p \in Callers : SynthReturn(p, SynthOutcomes)
    \/ \E p \in Callers : GetAudioPut(p, {TRUE})
    \/ \E p \in Callers : GetAudioRemove(p)
    \/ \E p \in Callers : GetAudioClose(p)
    \/ TouchRun({TRUE})
    \/ RecompressRun({TRUE})

SpecMiss == InitMiss /\ [][NextMiss]_vars

(* Delete during a fetch: on the file of an earlier run callers fetch, forced *)
(* or not, and a DeleteCached is only sent for a key whose flight is inside    *)
(* SynthesizeToMP3 at that moment.                                             *)

\* the requests whose key has a leader inside SynthesizeToMP3
Synthesizing ==
    {rq \in Requests : \E q \in Callers : /\ callers[q].pc = "synth"
                                          /\ callers[q].key = GenerateCacheKey(rq.text, rq.lang)}

InitDelete == InitService({{LegacyRow}}, BOOLEAN, {0})

NextDelete ==
    \/ \E p \in Callers : GetAudioLookup(p, Requests, BOOLEAN, {TRUE})
    \/ \E p \in Callers : GetAudioCheck(p)
    \/ \E p \in Callers : GetAudioWait(p)
    \/ \E p \in Callers : SynthReturn(p, ServerOutcomes)
    \/ \E p \in Callers : GetAudioPut(p, BOOLEAN)
    \/ \E p \in Callers : GetAudioRemove(p)
    \/ \E p \in Callers : GetAudioClose(p)
    \/ \E p \in Callers : DeleteCached(p, Synthesizing, BOOLEAN)
    \/ TouchRun({TRUE})
    \/ RecompressRun({TRUE})

SpecDelete == InitDelete /\ [][NextDelete]_vars

----------------------------------------------------------------------------
(* Properties of the Service, checked under Spec *)

\* the bytes a stored row holds, once decoded
Payload(r) == IF r.compression = "zstd" THEN Tail(r.audio_data) ELSE r.audio_data

\* the row can be read back by this Cache
Decodable(r) == r.compression = NULL \/ (compressionEnabled /\ IsZstdFrame(r.audio_data))

PutFailed(e) == e = <<"failed to insert into cache">>
QueryFailed(e) == e = <<"cache lookup failed", "failed to query cache">>
SynthFailed(e) == e # NoErr /\ e[1] = "Azure synthesis failed"

\* caller p starts the call op in this step
Starts(p, op) == callers[p].pc = "idle" /\ callers'[p].op = op

\* this step changes neither the flight map, nor a flight, nor the number of
\* SynthesizeToMP3 calls
NoFetchStep == inFlight' = inFlight /\ flights' = flights /\ synthCalls' = synthCalls

\* C2: in every reachable state, for each cache key at most one SynthesizeToMP3
\* call is in progress, however many callers are active for that key.
C2_OneSynthesisPerKey ==
    \A k \in Keys :
        Cardinality({p \in Callers : callers[p].pc = "synth" /\ callers[p].key = k}) <= 1

\* a synthesis is in progress for a key and another caller of that key waits on it
C2_Witness ==
    \E p, q \in Callers :
        /\ callers[p].pc = "synth"
        /\ callers[q].pc = "wait"
        /\ callers[q].key = callers[p].key
        /\ callers[q].flight = callers[p].flight

\* C3: a caller that joined a flight returns when the flight's leader has
\* returned, and returns what the leader returned: the clip and the key with
\* cached = false, or the synthesis error.
C3_WaiterReturnsLeadersOutcome ==
    [][\A q \in Callers :
        (callers[q].pc = "wait" /\ callers'[q].pc = "returned") =>
            LET l == flights[callers[q].flight].leader
                r == callers'[q].ret
            IN  /\ callers[l].pc = "returned"
                /\ callers[l].op = "GetAudio"
                /\ r = callers[l].ret
                /\ \/ /\ r.err = NoErr
                      /\ r.audioData \in Clips
                      /\ r.cacheKey = callers[q].key
                      /\ r.flag = FALSE
                   \/ /\ SynthFailed(r.err)
                      /\ r.audioData = NoBytes]_vars

\* two GetAudio calls have returned the same clip, not from the cache, after a
\* single synthesis for their key: one of them was a waiter
C3_Witness ==
    \E p, q \in Callers :
        /\ p # q
        /\ callers[p].pc = "returned" /\ callers[p].op = "GetAudio"
        /\ callers[q].pc = "returned" /\ callers[q].op = "GetAudio"
        /\ callers[p].ret = callers[q].ret
        /\ callers[p].ret.err = NoErr
        /\ ~callers[p].ret.flag
        /\ synthCalls[callers[p].ret.cacheKey] = 1

\* C4: the flight map holds a key exactly while a leader for that key is between
\* registration and removal (so it is empty when no GetAudio call is executing);
\* a flight is open exactly until its leader closes it, and by then it has left
\* the map, on success and on failure alike.
C4_FlightMapFollowsLeaders ==
    /\ \A k \in Keys :
        /\ inFlight[k] # NoFlight <=>
              \E p \in Callers : /\ callers[p].pc \in {"synth", "put", "remove"}
                                 /\ callers[p].key = k
                                 /\ callers[p].flight = inFlight[k]
        /\ Cardinality({p \in Callers : /\ callers[p].pc \in {"synth", "put", "remove"}
                                         /\ callers[p].key = k}) <= 1
    /\ \A f \in DOMAIN flights :
        LET l == flights[f].leader
        IN  IF flights[f].done
            THEN callers[l].pc = "returned" /\ (\A k \in Keys : inFlight[k] # f)
            ELSE callers[l].flight = f
                 /\ callers[l].pc \in {"synth", "put", "remove", "close"}
    /\ (\A p \in Callers : callers[p].pc \in {"idle", "returned"})
           => (\A k \in Keys : inFlight[k] = NoFlight)

\* a flight that failed is completed, with a waiter about to be released, and
\* the map is empty
C4_Witness ==
    \E q \in Callers :
        /\ callers[q].pc = "wait"
        /\ flights[callers[q].flight].done
        /\ flights[callers[q].flight].err # NoErr
        /\ \A k \in Keys : inFlight[k] = NoFlight

\* C5: if the synthesis succeeded and the Put failed, the leader and every
\* waiter of its flight return the synthesized clip with the derived key,
\* cached = false and no error.
C5_PutFailureIsNotFatal ==
    [][\A p \in Callers :
        /\ (callers[p].pc = "close" /\ PutFailed(callers[p].err)
               /\ callers'[p].pc = "returned") =>
              /\ callers[p].audioData \in Clips
              /\ callers'[p].ret = Result(callers[p].audioData,
                                          GenerateCacheKey(callers[p].text, callers[p].lang),
                                          FALSE, NoErr)
        /\ (callers[p].pc = "wait" /\ callers'[p].pc = "returned"
               /\ PutFailed(callers[flights[callers[p].flight].leader].err)) =>
              LET l == flights[callers[p].flight].leader
              IN  /\ callers[l].ret.audioData \in Clips
                  /\ callers'[p].ret = Result(callers[l].ret.audioData,
                                              GenerateCacheKey(callers[p].text, callers[p].lang),
                                              FALSE, NoErr)]_vars

\* a leader whose Put failed and a waiter of its flight have returned the clip
C5_Witness ==
    \E l, q \in Callers :
        /\ l # q
        /\ callers[l].pc = "returned" /\ PutFailed(callers[l].err)
        /\ callers[q].pc = "returned" /\ callers[q].op = "GetAudio"
        /\ callers[q].ret = callers[l].ret
        /\ callers[q].ret.err = NoErr
        /\ ~callers[q].ret.flag
        /\ callers[q].ret.audioData \in Clips
        /\ synthCalls[callers[q].ret.cacheKey] = 1

\* C6: a GetAudio call that is not forced, for a key whose row is present and
\* decodable, returns the decoded bytes with the key and cached = true (unless
\* the query itself fails); it makes no SynthesizeToMP3 call and neither
\* registers nor joins a flight.
C6_HitReturnsCached ==
    [][\A p \in Callers :
        Starts(p, "GetAudio") =>
            LET c == callers'[p]
                rows == RowsWithKey(table, GenerateCacheKey(c.text, c.lang))
            IN  /\ NoFetchStep
                /\ c.pc \in {"check", "returned"}
                /\ (c.pc = "check" /\ ~c.force) => rows = {}
                /\ c.pc = "returned" =>
                      \/ QueryFailed(c.ret.err)
                      \/ \E r \in rows : ~Decodable(r) /\ c.ret.err # NoErr
                      \/ \E r \in rows : /\ Decodable(r)
                                         /\ c.ret = Result(Payload(r), r.cache_key, TRUE, NoErr)]_vars

\* a call has returned, as a cache hit, the clip that another call of this run
\* fetched and stored compressed
C6_Witness ==
    \E p, q \in Callers :
        /\ callers[p].pc = "returned" /\ callers[p].op = "GetAudio"
        /\ callers[p].ret.flag
        /\ callers[q].pc = "returned" /\ callers[q].op = "GetAudio"
        /\ callers[q].ret.err = NoErr /\ ~callers[q].ret.flag
        /\ callers[q].ret.cacheKey = callers[p].ret.cacheKey
        /\ synthCalls[callers[p].ret.cacheKey] = 1
        /\ \E r \in table : /\ r.cache_key = callers[p].ret.cacheKey
                            /\ r.compression = "zstd"
                            /\ r.audio_data # callers[p].ret.audioData
                            /\ Payload(r) = callers[p].ret.audioData

\* C7: after a successful Put of a clip P for (t, l), whatever the compression
\* setting and whether or not a row for the key existed, a Get of (t, l) yields
\* P and the table holds exactly one row for the key.
C7_PutThenGet ==
    [][\A p \in Callers :
        (callers[p].pc = "put" /\ callers'[p].pc = "remove" /\ callers'[p].err = NoErr) =>
            LET c == callers[p]
                g == Get(table', c.text, c.lang, TRUE)
            IN  /\ g.err = NoErr
                /\ g.found
                /\ g.audio.audio_data = c.audioData
                /\ g.audio.cache_key = GenerateCacheKey(c.text, c.lang)
                /\ Cardinality(RowsWithKey(table', GenerateCacheKey(c.text, c.lang))) = 1]_vars

\* two leaders have put a clip for the same key one after the other, and the
\* second has just done so
C7_Witness ==
    \E p, q \in Callers :
        /\ callers[p].pc = "returned" /\ callers[p].op = "GetAudio"
        /\ callers[p].ret.err = NoErr /\ ~callers[p].ret.flag /\ callers[p].err = NoErr
        /\ callers[q].pc = "remove" /\ callers[q].err = NoErr
        /\ callers[q].key = callers[p].ret.cacheKey
        /\ synthCalls[callers[q].key] = 2
        /\ Cardinality(RowsWithKey(table, callers[q].key)) = 1

\* C8: a Delete of an absent key returns deleted = false with no error and
\* leaves the table unchanged; a Delete of a present key returns deleted = true;
\* after either, a Get of the key returns not-found and a repeated Delete
\* returns deleted = false.
C8_DeleteSemantics ==
    [][\A p \in Callers :
        Starts(p, "DeleteCached") =>
            LET c == callers'[p]
                key == GenerateCacheKey(c.text, c.lang)
                g == Get(table', c.text, c.lang, TRUE)
                d == Delete(table', c.text, c.lang, TRUE)
            IN  /\ c.pc = "returned"
                /\ c.ret.cacheKey = key
                /\ IF c.ret.err # NoErr
                   THEN table' = table /\ ~c.ret.flag
                   ELSE /\ c.ret.flag = (RowsWithKey(table, key) # {})
                        /\ ~c.ret.flag => table' = table
                        /\ \A r \in table : r.cache_key # key => r \in table'
                        /\ g.err = NoErr /\ ~g.found
                        /\ d.err = NoErr /\ ~d.deleted /\ d.table = table']_vars

\* a Delete has removed a row, and a later Delete of the same key found none
C8_Witness ==
    \E p, q \in Callers :
        /\ callers[p].pc = "returned" /\ callers[p].op = "DeleteCached"
        /\ callers[p].ret.err = NoErr /\ callers[p].ret.flag
        /\ callers[q].pc = "returned" /\ callers[q].op = "DeleteCached"
        /\ callers[q].ret.err = NoErr /\ ~callers[q].ret.flag
        /\ callers[q].ret.cacheKey = callers[p].ret.cacheKey
        /\ RowsWithKey(table, callers[p].ret.cacheKey) = {}

\* C9: GetCachedAudio makes no SynthesizeToMP3 call and neither registers nor
\* joins a flight; when the table has no row for the key it returns not-found
\* with the derived key and no error (unless the query itself fails), also
\* while a flight for the key is in progress.
C9_CachedOnlyNeverFetches ==
    [][\A p \in Callers :
        Starts(p, "GetCachedAudio") =>
            LET c == callers'[p]
                key == GenerateCacheKey(c.text, c.lang)
                rows == RowsWithKey(table, key)
            IN  /\ NoFetchStep
                /\ c.pc = "returned"
                /\ c.flight = NoFlight
                /\ table' = table
                /\ rows = {} =>
                      \/ QueryFailed(c.ret.err)
                      \/ c.ret = Result(NoBytes, key, FALSE, NoErr)
                /\ rows # {} =>
                      \/ c.ret.err # NoErr
                      \/ \E r \in rows : c.ret = Result(Payload(r), key, TRUE, NoErr)]_vars

\* a GetCachedAudio call has returned not-found for a key whose flight is in
\* progress
C9_Witness ==
    \E p, q \in Callers :
        /\ callers[p].pc = "returned" /\ callers[p].op = "GetCachedAudio"
        /\ callers[p].ret = Result(NoBytes, GenerateCacheKey(callers[p].text, callers[p].lang),
                                   FALSE, NoErr)
        /\ callers[q].pc = "synth"
        /\ callers[q].key = callers[p].ret.cacheKey
        /\ inFlight[callers[q].key] = callers[q].flight


----------------------------------------------------------------------------
(* The burst, checked under SpecBurst *)

\* C1: when every caller of the burst has returned, SynthesizeToMP3 has been
\* called exactly once and all callers have received the same bytes.
C1_BurstSynthesizesOnce ==
    (\A p \in Callers : callers[p].pc = "returned") =>
        /\ synthCalls[BurstKey] = 1
        /\ \A p, q \in Callers : callers[p].ret.audioData = callers[q].ret.audioData

----------------------------------------------------------------------------
(* The eviction scenario, checked under SpecEvict *)

\* all entries are inserted and every evictIfNeeded spawned has run
Drained == now = NumInserts /\ evictPending = 0 /\ evictRunning = EmptyBag

\* the entries that are gone are older than every entry that is left
SurvivorsAreNewest ==
    \A i, j \in 1..NumInserts :
        (RowsWithKey(table, EntryKey(i)) = {} /\ RowsWithKey(table, EntryKey(j)) # {}) => i < j

----------------------------------------------------------------------------
(* The cache scenario, checked under SpecCache *)

\* this step is the DELETE of an eviction pass that computed sizeToEvict
IsEvictDelete(sizeToEvict) ==
    /\ sizeToEvict \in BagToSet(evictRunning)
    /\ evictRunning' = evictRunning (-) SetToBag({sizeToEvict})
    /\ table' = EvictRows(table, sizeToEvict)

\* the possible values of sizeToEvict
EvictSizes == BagToSet(evictRunning)

\* C11: when an eviction pass whose DELETE sees the total its SUM query read
\* completes, the total stored size is at most the limit.
C11_PassEnforcesLimit ==
    [][\A sizeToEvict \in EvictSizes :
          (/\ IsEvictDelete(sizeToEvict)
           /\ sizeToEvict = SumSizes(table) - TargetSize(maxSizeBytes))
          => SumSizes(table') <= maxSizeBytes]_vars

\* C12: every row an eviction pass deletes has a last_accessed less than or
\* equal to the last_accessed of every row the pass leaves in the table it
\* reads.
C12_EvictsOldestFirst ==
    [][\A sizeToEvict \in EvictSizes :
          IsEvictDelete(sizeToEvict) =>
              /\ table' \subseteq table
              /\ \A gone \in table \ table', kept \in table' :
                     gone.last_accessed <= kept.last_accessed]_vars

\* an eviction pass has read a total over the limit, and its DELETE removes
\* some rows of the table and leaves others
C12_Witness ==
    \E sizeToEvict \in EvictSizes :
        /\ EvictRows(table, sizeToEvict) # {}
        /\ EvictRows(table, sizeToEvict) # table

\* C13: in every reachable state each row's audio_size is the length of its
\* audio_data.
C13_SizeIsPayloadLength ==
    \A r \in table : r.audio_size = ByteLen(r.audio_data)

\* before any Put, recompressEntry has rewritten the row of the earlier run
C13_Witness ==
    /\ now = 0
    /\ \E r \in table : /\ r.compression = "zstd"
                        /\ r.cache_key = LegacyRow.cache_key
                        /\ r.audio_size = ByteLen(LegacyRow.audio_data) + 1

\* C14: in every reachable state each row has last_accessed >= created_at.
C14_AccessedNotBeforeCreated ==
    \A r \in table : r.last_accessed >= r.created_at

RECURSIVE StoredBytes(_)
\* the bytes the rows hold
StoredBytes(rows) ==
    IF rows = {} THEN 0
    ELSE LET r == CHOOSE x \in rows : TRUE
         IN  ByteLen(r.audio_data) + StoredBytes(rows \ {r})

\* C15: in every reachable state GetStats reports as total_size the bytes the
\* surviving entries hold and as total_clips the number of surviving entries.
C15_StatsMatchTable ==
    LET stats == GetStats(table, TRUE)
    IN  /\ stats.err = NoErr
        /\ stats.total_size = StoredBytes(table)
        /\ stats.total_clips = Cardinality({r.cache_key : r \in table})

\* both Puts are done, the row of the earlier run is gone, and GetStats reports
\* two clips that exceed the limit
C15_Witness ==
    /\ now = MaxPuts
    /\ RowsWithKey(table, LegacyRow.cache_key) = {}
    /\ GetStats(table, TRUE).total_clips = 2
    /\ GetStats(table, TRUE).total_size > maxSizeBytes

----------------------------------------------------------------------------
(* Key derivation, checked under SpecKeys *)

\* caller p has derived the key of (text, lang)
Derived(p, text, lang) ==
    /\ callers[p].pc = "returned" /\ callers[p].op = "GenerateCacheKey"
    /\ callers[p].text = text /\ callers[p].lang = lang

FlipCase(c) ==
    CASE c \in Upper -> ToLowerRune(c)
      [] c \in Lower /\ (\E u \in Upper : ToLowerRune(u) = c) ->
            CHOOSE u \in Upper : ToLowerRune(u) = c
      [] OTHER -> c

\* s with c inserted before position i (i = Len(s) + 1 appends)
InsertAt(s, i, c) == SubSeq(s, 1, i - 1) \o <<c>> \o SubSeq(s, i, Len(s))

\* the texts one edit away from s that differ from it only in the case of a
\* letter, in a run of whitespace or leading or trailing whitespace, or in
\* trailing punctuation
Variants(s) ==
    {[s EXCEPT ![i] = FlipCase(s[i])] : i \in 1..Len(s)}
    \cup {[s EXCEPT ![i] = w] : i \in {j \in 1..Len(s) : s[j] \in Space}, w \in Space}
    \cup {InsertAt(s, i, w) : i \in {j \in 1..Len(s) : s[j] \in Space}, w \in Space}
    \cup {InsertAt(s, 1, w) : w \in Space}
    \cup {InsertAt(s, Len(s) + 1, c) : c \in Space \cup {"!", ","}}

\* s is lowercase, its words are separated by single spaces, and it neither
\* starts with whitespace nor ends with whitespace or punctuation
IsNormal(s) ==
    /\ \A i \in 1..Len(s) : s[i] \notin Upper /\ (s[i] \in Space => s[i] = " ")
    /\ \A i \in 1..(Len(s) - 1) : ~(s[i] \in Space /\ s[i + 1] \in Space)
    /\ s # <<>> => /\ s[1] \notin Space
                   /\ s[Len(s)] \notin Space
                   /\ s[Len(s)] \notin {"!", ","}

Invalid(rq) == rq.text = <<>> \/ rq.lang = <<>>

\* C18: a call that starts with an empty text or language code returns an
\* error in that same step, and the step reads and writes nothing: no cache
\* row, no spawned goroutine, no flight, no synthesis; a batch that is empty or
\* holds an invalid item is answered with an error and no responses, and no
\* goroutine is started for any of its items.
C18_InvalidRejectedFirst ==
    [][/\ \A p \in Callers :
            (Free(p) /\ callers'[p].pc # "idle" /\ Invalid(callers'[p]))
            => /\ callers'[p].pc = "returned"
               /\ callers'[p].ret.err # NoErr
               /\ callers'[p].ret.audioData = NoBytes
               /\ UNCHANGED <<cacheVars, lockVars, inFlight, flights, synthCalls, bulk>>
       /\ (/\ bulk.pc = "idle" /\ bulk'.pc # "idle"
           /\ \/ Len(bulk'.requests) = 0
              \/ \E i \in 1..Len(bulk'.requests) : Invalid(bulk'.requests[i]))
          => /\ bulk'.pc = "done"
             /\ bulk'.resp.err # NoErr
             /\ bulk'.resp.responses = <<>>
             /\ bulk'.workers = <<>>
             /\ UNCHANGED <<cacheVars, lockVars, serviceVars>>
      ]_vars

\* an empty text, an empty language code and a batch whose second item is
\* invalid have all been rejected, each with the error of its check
C18_Witness ==
    /\ \E p \in Callers :
          /\ callers[p].pc = "returned" /\ callers[p].op = "FetchTTS"
          /\ callers[p].text = <<>>
          /\ callers[p].ret.err = <<"text is required">>
    /\ \E p \in Callers :
          /\ callers[p].pc = "returned" /\ callers[p].op = "DeleteCached"
          /\ callers[p].lang = <<>>
          /\ callers[p].ret.err = <<"language_code is required">>
    /\ bulk.pc = "done"
    /\ Len(bulk.requests) = 2
    /\ ~Invalid(bulk.requests[1])
    /\ bulk.resp.err = <<"request", "1", "language_code is required">>
    /\ table = {} /\ \A k \in Keys : synthCalls[k] = 0


\* what the goroutine of the batch's request i returned
BulkResult(i) == callers[bulk.workers[i]].ret

\* C19: a batch that passed the checks is answered only after the GetAudio call
\* of every item has returned; if one of them failed the answer is an error
\* and no responses; otherwise response i carries the key of request i and the
\* audio, the size and the cached flag that request i's call returned.
C19_BulkInOrderOrFailed ==
    /\ bulk.pc = "running" => bulk.resp = NoBulkResponse
    /\ (bulk.pc = "done" /\ bulk.workers # <<>>)
       => /\ Len(bulk.workers) = Len(bulk.requests)
          /\ \A i \in 1..Len(bulk.requests) :
                /\ callers[bulk.workers[i]].pc = "returned"
                /\ callers[bulk.workers[i]].text = bulk.requests[i].text
                /\ callers[bulk.workers[i]].lang = bulk.requests[i].lang
          /\ IF \E i \in 1..Len(bulk.requests) : BulkResult(i).err # NoErr
             THEN bulk.resp.err # NoErr /\ bulk.resp.responses = <<>>
             ELSE /\ bulk.resp.err = NoErr
                  /\ Len(bulk.resp.responses) = Len(bulk.requests)
                  /\ \A i \in 1..Len(bulk.requests) :
                        LET r == bulk.resp.responses[i]
                        IN  /\ r.CacheKey = GenerateCacheKey(bulk.requests[i].text,
                                                             bulk.requests[i].lang)
                            /\ r.AudioData = BulkResult(i).audioData
                            /\ r.AudioData # NoBytes
                            /\ r.AudioSize = ByteLen(r.AudioData)
                            /\ r.Cached = BulkResult(i).flag

\* a batch of two different requests: the first was fetched, the synthesis of
\* the second failed, and the batch is answered with the second's error alone
C19_Witness ==
    /\ bulk.pc = "done"
    /\ Len(bulk.workers) = 2
    /\ bulk.requests[1].lang # bulk.requests[2].lang
    /\ BulkResult(1).err = NoErr /\ BulkResult(1).audioData # NoBytes
    /\ BulkResult(2).err # NoErr
    /\ SubSeq(bulk.resp.err, 1, 3) = <<"request", "1", "failed">>
    /\ bulk.resp.responses = <<>>


----------------------------------------------------------------------------
(* Cancellation, checked under SpecCancel *)

\* C20: a caller whose context is cancelled while it waits on another caller's
\* flight can stop waiting at once: its return does not depend on the leader
\* having closed the flight.
C20_CancelledWaiterStops ==
    \A p \in Callers :
        (p \in cancelled /\ callers[p].pc = "wait") => ENABLED GetAudioWait(p)


----------------------------------------------------------------------------
(* Recompression, checked under SpecCache *)

\* a recompressEntry goroutine takes its step
IsRecompressRun == recompressions' # recompressions

\* a spawned recompression holds bytes that are no longer what its row decodes to
StaleRecompression(t) ==
    \E r \in table : r.cache_key = t[1] /\ Payload(r) # t[2]

\* C21: the step of a recompressEntry goroutine never changes what a row
\* decodes to, whatever Puts, Deletes and other goroutines ran since the Get
\* that spawned it: a row rewritten by a Put in between keeps the bytes of that
\* Put, and only a row that is still uncompressed is rewritten.
C21_RecompressionKeepsLatestPut ==
    [][IsRecompressRun =>
          /\ {r.cache_key : r \in table'} = {r.cache_key : r \in table}
          /\ \A r \in table, q \in table' :
                r.cache_key = q.cache_key =>
                   /\ Payload(q) = Payload(r)
                   /\ r.compression # NULL => q = r
      ]_vars

\* a Get spawned a recompression of the bytes of the earlier run, a Put has
\* since replaced the row with another clip, stored compressed, and the
\* goroutine has still to run
C21_Witness ==
    \E t \in recompressions :
        /\ StaleRecompression(t)
        /\ \E r \in table : /\ r.cache_key = t[1]
                            /\ r.compression = "zstd"
                            /\ r.created_at > 0
                            /\ Payload(r) \in CacheClips


----------------------------------------------------------------------------
(* The switch to compression, checked under SpecTransition *)

\* caller p has read the entry of key k from the cache
ReadEntry(p, k) ==
    /\ callers[p].pc = "returned"
    /\ callers[p].ret.flag
    /\ callers[p].ret.cacheKey = k

\* the entry of key k is stored as a zstd frame
StoredCompressed(k) ==
    \E r \in table : /\ r.cache_key = k
                      /\ r.compression = "zstd"
                      /\ IsZstdFrame(r.audio_data)

\* C22: what an entry written without compression decodes to never changes,
\* every read of it returns those bytes, before, while and after it is
\* recompressed, and once it has been read with compression enabled it is
\* eventually stored as zstd.
C22_EventuallyCompressedSameContent ==
    /\ [][\A r \in table : \E q \in table' :
              q.cache_key = r.cache_key /\ Payload(q) = Payload(r)]_vars
    /\ [](\A p \in Callers, k \in Keys :
            ReadEntry(p, k) =>
               \E r \in table : r.cache_key = k /\ Payload(r) = callers[p].ret.audioData)
    /\ \A k \in Keys : (\E p \in Callers : ReadEntry(p, k)) ~> StoredCompressed(k)

\* an entry written by the daemon while compression was off has been read by
\* every caller after the restart, each got the clip that was written, and the
\* recompression spawned by the first of these reads has stored it as zstd
C22_Witness ==
    \E k \in Keys \ {LegacyRow.cache_key} :
        /\ StoredCompressed(k)
        /\ recompressions = {}
        /\ \A p \in Callers : ReadEntry(p, k) /\ callers[p].ret.audioData \in Clips


----------------------------------------------------------------------------
(* Background work, checked under SpecBackground *)

\* a spawned goroutine takes a step: a touch, a recompression, or one of the
\* two statements of an eviction pass
IsBackgroundStep ==
    \/ touches' # touches /\ touches' \subseteq touches
    \/ recompressions' # recompressions /\ recompressions' \subseteq recompressions
    \/ evictPending' < evictPending
    \/ BagCardinality(evictRunning') < BagCardinality(evictRunning)

\* C23: a step of a background goroutine, whether its statement succeeds or
\* fails, changes no caller, no result, no flight; the Get that spawns a touch
\* or a recompression returns in the very step that spawns them, with the
\* entry it read; and the Put that spawns an eviction pass hands its key and no
\* error to the flight while the pass has still to run.
C23_BackgroundNeverReachesForeground ==
    [][/\ IsBackgroundStep => UNCHANGED serviceVars
       /\ \A p \in Callers :
            (callers'[p] # callers[p] /\ ~(touches' \subseteq touches))
            => LET g == Get(table, callers'[p].text, callers'[p].lang, TRUE)
               IN  /\ callers'[p].pc = "returned"
                   /\ <<GenerateCacheKey(callers'[p].text, callers'[p].lang),
                        getCurrentTimestamp>> \in touches'
                   /\ g.err = NoErr => callers'[p].ret = HitResult(g.audio)
                   /\ g.recompress =>
                         <<g.audio.cache_key, g.audio.audio_data>> \in recompressions'
       /\ \A p \in Callers :
            (callers[p].pc = "put" /\ callers'[p].pc # "put")
            => /\ evictPending' = evictPending + 1
               /\ callers'[p].err = NoErr
               /\ flights'[callers[p].flight].err = NoErr
               /\ flights'[callers[p].flight].cacheKey = callers[p].key
      ]_vars

\* a caller read the entry of the earlier run and got its bytes; the
\* recompression its read spawned has run and failed, the row being still
\* uncompressed
C23_Witness ==
    /\ compressionEnabled
    /\ recompressions = {}
    /\ \E r \in table : r.cache_key = LegacyRow.cache_key /\ r.compression = NULL
    /\ \E p \in Callers :
          /\ callers[p].pc = "returned"
          /\ callers[p].ret = HitResult(LegacyRow)


----------------------------------------------------------------------------
(* Termination, checked under SpecFlights *)

\* C24: every GetAudio call that has started eventually returns, whether it
\* hit the cache, led a flight or waited on one, and whether the synthesis
\* succeeded or failed.
C24_EveryCallReturns ==
    \A p \in Callers : (callers[p].pc # "idle") ~> (callers[p].pc = "returned")

\* two calls for one key have both returned the error of the single synthesis
\* that was made for it: one of them waited on the other's flight
C24_Witness ==
    \E p, q \in Callers :
        /\ p # q
        /\ callers[p].pc = "returned" /\ callers[q].pc = "returned"
        /\ callers[p].text = callers[q].text /\ callers[p].lang = callers[q].lang
        /\ SynthFailed(callers[p].ret.err) /\ SynthFailed(callers[q].ret.err)
        /\ synthCalls[GenerateCacheKey(callers[p].text, callers[p].lang)] = 1


----------------------------------------------------------------------------
(* The schema upgrade, checked under SpecMigrate *)

\* a row of the first version, with the two later columns at their defaults
Upgraded(r) ==
    [cache_key     |-> r.cache_key,
     text          |-> r.text,
     language_code |-> r.language_code,
     audio_data    |-> r.audio_data,
     audio_size    |-> r.audio_size,
     created_at    |-> r.created_at,
     compression   |-> NULL,
     last_accessed |-> r.created_at]

\* C25: an initSchema that returns nil on a table with neither a compression
\* nor a last_accessed column leaves exactly the rows it found, each with its
\* six columns as they were, compression NULL and last_accessed = created_at.
C25_UpgradeKeepsRows ==
    [][(/\ schema.columns = CreatedColumns
        /\ schema' # schema
        /\ schema'.err = NoErr)
       => /\ schema'.columns = AllColumns
          /\ table' = {Upgraded(r) : r \in table}
          /\ Cardinality(table') = Cardinality(table)
      ]_vars

\* the file of the first version has been upgraded: its three rows, written at
\* two different times before the daemon was started, are there with
\* compression NULL and last_accessed = created_at
C25_Witness ==
    /\ schema = CurrentSchema
    /\ table = {Upgraded(r) : r \in FirstRows}
    /\ \E r \in table : r.last_accessed = 0
    /\ \E r \in table : r.last_accessed = 1


----------------------------------------------------------------------------
(* Timestamps of an entry, checked under SpecBackground *)

\* C26: no step changes the created_at of a row that it leaves in the table:
\* not a touch, not a recompression, not the Put of a refresh of its key.
C26_CreatedAtSetOnce ==
    [][\A r \in table, q \in table' :
          q.cache_key = r.cache_key => q.created_at = r.created_at]_vars


----------------------------------------------------------------------------
(* Forced requests and flights, checked under Spec *)

\* C27: a forced call that finds a flight registered for its key becomes a
\* waiter of that very flight: it registers nothing, allocates nothing, and no
\* SynthesizeToMP3 call is made for it, whoever leads the flight.
C27_ForcedJoinsFlight ==
    [][\A p \in Callers :
          (/\ callers[p].pc = "check" /\ callers[p].force
           /\ FlightExists(inFlight, callers[p].key)
           /\ callers'[p] # callers[p])
          => /\ callers'[p].pc = "wait"
             /\ callers'[p].flight = inFlight[callers[p].key]
             /\ inFlight' = inFlight
             /\ synthCalls' = synthCalls
             /\ DOMAIN flights' \subseteq DOMAIN flights
      ]_vars

\* two calls for the stored entry have both returned a freshly fetched clip,
\* so both were forced (nothing deleted the entry, and an unforced call would
\* have hit it), and one SynthesizeToMP3 call was made for the key
C27_Witness ==
    /\ \A r \in Callers : callers[r].op # "DeleteCached"
    /\ \E p, q \in Callers :
          /\ p # q
          /\ \A r \in {p, q} :
                /\ callers[r].pc = "returned" /\ callers[r].op = "GetAudio"
                /\ callers[r].ret.cacheKey = LegacyRow.cache_key
                /\ callers[r].ret.err = NoErr /\ ~callers[r].ret.flag
          /\ synthCalls[LegacyRow.cache_key] = 1


----------------------------------------------------------------------------
(* The start of an eviction pass, checked under SpecEvict *)

\* an evictIfNeeded goroutine reads the total and compares it with the limit
IsEvictRead == evictPending' < evictPending

\* C28: a pass that reads a total of at most maxSizeBytes ends there: it
\* changes no row and goes on to no DELETE; a pass goes on to its DELETE only
\* with a total above the limit, and then with total - target to evict; and
\* every DELETE that is still to run stems from such a total.
C28_PassStopsWithinBudget ==
    [][/\ IsEvictRead =>
            /\ table' = table
            /\ SumSizes(table) <= maxSizeBytes => evictRunning' = evictRunning
            /\ evictRunning' # evictRunning =>
                  /\ SumSizes(table) > maxSizeBytes
                  /\ evictRunning' = evictRunning (+)
                        SetToBag({SumSizes(table) - TargetSize(maxSizeBytes)})
       /\ \A sizeToEvict \in BagToSet(evictRunning') :
            sizeToEvict + TargetSize(maxSizeBytes) > maxSizeBytes
       /\ table' # table /\ Cardinality(table') < Cardinality(table) =>
            BagCardinality(evictRunning') < BagCardinality(evictRunning)
      ]_vars

\* ten entries are stored, their total is exactly the limit, and every pass
\* spawned so far has run: none deleted anything
C28_Witness ==
    /\ SumSizes(table) = maxSizeBytes
    /\ now * EntryBytes = LimitBytes
    /\ Cardinality(table) = now
    /\ evictPending = 0 /\ evictRunning = EmptyBag


----------------------------------------------------------------------------
(* Eviction among entries of equal last_accessed, checked under SpecTies *)

\* the rows of tbl in a sequence of ascending last_accessed
AscendingOrders(tbl) ==
    {f \in [1..Cardinality(tbl) -> tbl] :
        /\ \A i, j \in DOMAIN f : i # j => f[i] # f[j]
        /\ \A i, j \in DOMAIN f : i < j => f[i].last_accessed <= f[j].last_accessed}

\* the sizes of the first i rows of the walk, added up
RECURSIVE WalkedSize(_, _)
WalkedSize(f, i) == IF i = 0 THEN 0 ELSE f[i].audio_size + WalkedSize(f, i - 1)

\* the rows a walk along f deletes
WalkDeleted(f, toEvict) ==
    {f[i] : i \in {k \in DOMAIN f : WalkedSize(f, k) <= toEvict}}

\* C29: the rows the DELETE of an eviction pass removes are the rows a walk
\* over the table in some ascending order of last_accessed removes, adding up
\* sizes row by row and deleting each row whose inclusive sum is at most
\* sizeToEvict.
C29_PassEqualsWalk ==
    [][\A sizeToEvict \in EvictSizes :
          (evictRunning' = evictRunning (-) SetToBag({sizeToEvict}))
          => \E f \in AscendingOrders(table) :
                table \ table' = WalkDeleted(f, sizeToEvict)]_vars

\* C30: inFlightMu is held only around the reads and writes of the in-flight
\* map. A caller that holds it is about to read or change the map or to
\* unlock, and never waits for anything while holding it; a caller in
\* SynthesizeToMP3 or in Cache.Put does not hold it. So a call for one key
\* gets through while a synthesis for another key is in progress.
C30_LockOnlyAroundMap ==
    \A p \in Callers :
        /\ Locked(p) => /\ callers[p].pc \in {"check", "remove", "wait", "synth", "close"}
                        /\ ENABLED GetAudioLocked(p)
        /\ callers[p].pc = "put" => ~Locked(p)
        /\ (callers[p].pc = "synth" /\ ~Locked(p))
           => \A q \in Callers \ {p} :
                 /\ (callers[q].pc \in {"check", "remove"} /\ inFlightMu = 0)
                    => ENABLED GetAudioLock(q)
                 /\ Locked(q) => ENABLED GetAudioLocked(q)

\* one caller is in SynthesizeToMP3 for one key, the mutex free, and another
\* caller's call for the other key has registered, fetched and returned
C30_Witness ==
    \E p, q \in Callers :
        /\ callers[p].pc = "synth" /\ inFlightMu = 0
        /\ callers[q].pc = "returned" /\ callers[q].op = "GetAudio"
        /\ callers[q].ret.err = NoErr /\ ~callers[q].ret.flag
        /\ callers[q].ret.cacheKey # callers[p].key
        /\ synthCalls[callers[q].ret.cacheKey] = 1
        /\ synthCalls[callers[p].key] = 1
        /\ inFlight[callers[q].ret.cacheKey] = NoFlight
        /\ FlightExists(inFlight, callers[p].key)

\* a step of an updateLastAccessed goroutine
IsTouchRun == touches' # touches /\ touches' \subseteq touches

\* C31: with no Put in between, a touch never replaces the last_accessed of an
\* entry by an earlier one, so that after the touches of all reads have run
\* the entry carries the time of its most recent read.
C31_TouchNeverGoesBack ==
    [][IsTouchRun =>
          \A r \in table : \A u \in table' :
              u.cache_key = r.cache_key => u.last_accessed >= r.last_accessed]_vars

\* C32: a GetAudio call that is not forced and whose lookup fails, because the
\* query fails or because the stored bytes cannot be decoded, returns at once
\* with an error and without bytes or key; it registers and joins no flight
\* and causes no SynthesizeToMP3 call, and the row is left as it is.
C32_LookupErrorIsReturned ==
    [][\A p \in Callers :
        (Starts(p, "GetAudio") /\ ~callers'[p].force) =>
            LET c == callers'[p]
                rows == RowsWithKey(table, GenerateCacheKey(c.text, c.lang))
            IN  /\ (\E r \in rows : ~Decodable(r)) => (c.pc = "returned" /\ c.ret.err # NoErr)
                /\ (c.pc = "returned" /\ c.ret.err # NoErr)
                   => /\ c.ret = Result(NoBytes, NoKey, FALSE, c.ret.err)
                      /\ c.ret.err[1] = "cache lookup failed"
                      /\ c.flight = NoFlight
                      /\ NoFetchStep
                      /\ table' = table]_vars

\* one call has returned the error of a failed query and another the error
\* of an entry that cannot be decoded; the entry is still stored and nothing
\* was synthesized for its key
C32_Witness ==
    \E p, q \in Callers :
        /\ callers[p].pc = "returned" /\ callers[p].op = "GetAudio"
        /\ QueryFailed(callers[p].ret.err)
        /\ callers[q].pc = "returned" /\ callers[q].op = "GetAudio"
        /\ callers[q].ret.err # NoErr /\ ~QueryFailed(callers[q].ret.err)
        /\ callers[q].ret.audioData = NoBytes
        /\ \E r \in table : /\ r.cache_key = GenerateCacheKey(callers[q].text, callers[q].lang)
                            /\ ~Decodable(r)
        /\ synthCalls[GenerateCacheKey(callers[q].text, callers[q].lang)] = 0

\* C33: a leader whose SynthesizeToMP3 call fails goes on to the removal of its
\* flight without a Put: neither the step in which the synthesis fails nor
\* the leader's later steps change a row or spawn an eviction pass, so a row
\* that was stored for the key is still there.
C33_FailedSynthesisWritesNothing ==
    [][\A p \in Callers :
        LET c == callers[p]
            d == callers'[p]
        IN  /\ (c.pc = "synth" /\ d.pc # "synth" /\ d.err # NoErr)
               => /\ d.pc = "remove"
                  /\ UNCHANGED <<table, evictPending, evictRunning>>
            /\ (c.pc \in {"remove", "close"} /\ d.pc # c.pc /\ SynthFailed(flights[c.flight].err))
               => UNCHANGED <<table, evictPending, evictRunning>>
            /\ (c.pc # "put" /\ d.pc = "put") => (c.pc = "synth" /\ d.err = NoErr)]_vars

\* a forced refresh of the stored entry has failed in the synthesis; the
\* entry is still stored with its payload, a later read has returned it,
\* and no eviction pass is pending
C33_Witness ==
    \E p, q \in Callers :
        /\ callers[p].pc = "returned" /\ callers[p].op = "GetAudio"
        /\ SynthFailed(callers[p].ret.err)
        /\ GenerateCacheKey(callers[p].text, callers[p].lang) = LegacyRow.cache_key
        /\ synthCalls[LegacyRow.cache_key] = 1
        /\ \E r \in table : /\ r.cache_key = LegacyRow.cache_key
                            /\ Payload(r) = LegacyRow.audio_data
                            /\ r.created_at = LegacyRow.created_at
        /\ callers[q].pc = "returned" /\ callers[q].op = "GetCachedAudio"
        /\ callers[q].ret = Result(LegacyRow.audio_data, LegacyRow.cache_key, TRUE, NoErr)
        /\ evictPending = 0 /\ evictRunning = EmptyBag

\* caller p returns from GetAudio in this step with freshly fetched audio
ReturnsFetched(p) ==
    /\ callers[p].pc \in {"wait", "close"} /\ callers'[p].pc = "returned"
    /\ callers'[p].ret.err = NoErr /\ ~callers'[p].ret.flag

\* what an unforced GetAudio for the request of caller p would find in the
\* table as it is after this step
NextLookup(p) == Get(table', callers'[p].text, callers'[p].lang, TRUE)

C35_DeleteDoesNotCancel ==
    [][\A p \in Callers :
        /\ Starts(p, "DeleteCached")
           => /\ NoFetchStep
              /\ \A q \in Callers \ {p} : callers'[q] = callers[q]
              /\ \E q \in Callers : /\ callers'[q].pc = "synth"
                                     /\ callers'[q].key = callers'[p].ret.cacheKey
                                     /\ inFlight'[callers'[q].key] = callers'[q].flight
        /\ (callers[p].pc = "put" /\ callers'[p].pc = "remove" /\ callers'[p].err = NoErr)
           => \E r \in table' : /\ r.cache_key = callers[p].key
                                /\ Payload(r) = callers[p].audioData]_vars

\* a DeleteCached has removed the stored entry and returned without error
\* while the key's flight was synthesizing; the flight's caller has returned
\* its clip, and the key is stored again
C35_Witness ==
    \E p, q \in Callers :
        /\ callers[p].pc = "returned" /\ callers[p].op = "DeleteCached"
        /\ callers[p].ret = Result(NoBytes, LegacyRow.cache_key, TRUE, NoErr)
        /\ callers[q].pc = "returned" /\ callers[q].op = "GetAudio"
        /\ callers[q].ret.err = NoErr /\ ~callers[q].ret.flag
        /\ callers[q].ret.cacheKey = LegacyRow.cache_key
        /\ callers[q].err = NoErr
        /\ \E r \in table : /\ r.cache_key = LegacyRow.cache_key
                            /\ Payload(r) = callers[q].ret.audioData

\* the goroutines that run in this step: spawned tasks that are gone after it
TasksRun == (touches \ touches') \cup (recompressions \ recompressions')

\* the keys of the stored entries
StoredKeys(tbl) == {r.cache_key : r \in tbl}

\* C36: a step of an updateLastAccessed or a recompressEntry goroutine neither
\* adds nor removes a key, and changes nothing at all when the key of the task
\* is not stored any more; a key appears in the table only in the step of a
\* Put (the only step of this scenario in which the clock advances).
C36_TasksCreateNoEntry ==
    [][/\ TasksRun # {}
          => /\ StoredKeys(table') = StoredKeys(table)
             /\ \A t \in TasksRun : RowsWithKey(table, t[1]) = {} => table' = table
       /\ ~(StoredKeys(table') \subseteq StoredKeys(table)) => now' = now + 1
      ]_vars

\* a read spawned a touch and a recompression of an entry, the entry has been
\* deleted since, and both goroutines have still to run
C36_Witness ==
    \E t \in touches, u \in recompressions :
        /\ t[1] = u[1]
        /\ RowsWithKey(table, t[1]) = {}

\* the rows that no other row was accessed after
Newest(tbl) == {r \in tbl : \A x \in tbl : x.last_accessed <= r.last_accessed}

CompressedRows(c) ==
    {r \in RowsWithKey(table, GenerateCacheKey(c.text, c.lang)) : r.compression = "zstd"}

\* C38: in a Cache opened without compression, a Get of an entry marked zstd
\* returns an error, neither the entry nor not-found; an unforced GetAudio for
\* it returns that error at once, with no flight and no SynthesizeToMP3 call;
\* and the entry is kept as it is, but for its last_accessed, by every step
\* that is not a delete of its key or the Put of a fetch of its key.
C38_NoDecoderIsAnError ==
    [][~compressionEnabled =>
        /\ \A r \in table :
              r.compression = "zstd" =>
                 LET g == Get(table, r.text, r.language_code, TRUE)
                 IN  g.err = <<"zstd decoder not initialized">> /\ ~g.found
        /\ \A p \in Callers :
              LET c == callers'[p]
              IN  /\ (Starts(p, "GetCachedAudio") /\ CompressedRows(c) # {})
                     => /\ c.ret.err # NoErr
                        /\ c.ret.audioData = NoBytes /\ ~c.ret.flag
                  /\ (Starts(p, "GetAudio") /\ ~c.force /\ CompressedRows(c) # {})
                     => /\ c.pc = "returned"
                        /\ c.ret.err # NoErr
                        /\ c.ret.audioData = NoBytes
                        /\ NoFetchStep
        /\ \A r \in table :
              (r.compression = "zstd"
               /\ [r EXCEPT !.last_accessed = 0] \notin {[x EXCEPT !.last_accessed = 0] : x \in table'})
              => \E p \in Callers :
                    \/ /\ Starts(p, "DeleteCached")
                       /\ callers'[p].ret.cacheKey = r.cache_key
                    \/ /\ callers[p].pc = "put" /\ callers'[p].pc = "remove"
                       /\ callers[p].key = r.cache_key
      ]_vars

\* without a decoder, a read and an unforced fetch of the compressed entry
\* have both returned the decoder error; the entry is still stored and
\* nothing was synthesized
C38_Witness ==
    \E p, q \in Callers :
        /\ ~compressionEnabled
        /\ CompressedRow \in {[x EXCEPT !.last_accessed = 0] : x \in table}
        /\ callers[p].pc = "returned" /\ callers[p].op = "GetCachedAudio"
        /\ callers[q].pc = "returned" /\ callers[q].op = "GetAudio"
        /\ \A r \in {p, q} :
              /\ callers[r].ret = LookupFailed(<<"zstd decoder not initialized">>)
              /\ GenerateCacheKey(callers[r].text, callers[r].lang) = CompressedRow.cache_key
        /\ \A k \in Keys : synthCalls[k] = 0

\* C39: whenever the last initSchema run returned nil, no row has a NULL
\* last_accessed, also when a run before it failed between the ALTER TABLE
\* that adds the column and the UPDATE that fills it.
C39_NoNullAfterInit ==
    (schema.err = NoErr /\ ColumnExists(schema.columns, "last_accessed"))
    => \A r \in table : r.last_accessed # NullTime

\* C40: the key derived for a request differs from the key of every request
\* with another language code or another normalized text, colons in either
\* included.
C40_KeysSeparatePairs ==
    \A p \in Callers :
        (callers[p].pc = "returned" /\ callers[p].op = "GenerateCacheKey") =>
            \A text \in ColonTexts, lang \in ColonLangs :
                (lang # callers[p].lang \/ NormalizeText(text) # NormalizeText(callers[p].text))
                => GenerateCacheKey(text, lang) # callers[p].ret.cacheKey

====
